---- MODULE Spec2Model ----
(***************************************************************************)
(* Lock-free single-producer/single-consumer ring buffer                   *)
(* (src/src/ring_buffer.c).                                                *)
(*                                                                         *)
(* One writer thread executes ring_buffer_write and one reader thread      *)
(* executes ring_buffer_read, each one statement at a time: every atomic   *)
(* cursor load, every per-sample slot copy of the two memcpy chunks and    *)
(* the cursor store is a step of its own.                                  *)
(*                                                                         *)
(* Memory model.  The cursors are C11 atomics; the storage slots are plain *)
(* floats.  A plain load of a slot by the reader is ordered after the      *)
(* writer's plain store to it only through an acquire load that reads a    *)
(* release store.  Without that edge the two accesses race, and the load   *)
(* may return the slot's current content or any content the slot held      *)
(* since the reader last synchronised (stale[s]).  A relaxed store of a    *)
(* cursor is not ordered after the plain loads sequenced before it, so it  *)
(* may become visible to the other thread while those loads are still      *)
(* outstanding.  The memory orders are those written in the source.        *)
(***************************************************************************)
EXTENDS Integers, Sequences, FiniteSets, TLC

\* ---------------------------------------------------------------- bounds
\* width of size_t in the model, in bits
SizeBits == 14
\* width of size_t, in bits, where the cursors are run past their wrap
OverflowBits == 3
\* largest capacity_samples passed to ring_buffer_create
MaxCapacity == 4
\* largest count passed to ring_buffer_write / ring_buffer_read
MaxCount == 3
\* most samples accepted between two resets, with calls in flight together
MaxTotal == 4
\* most samples accepted between two resets, with calls made one at a time
MaxTotalSeq == 9

\* memset(..., 0, ...): the value of a zeroed slot
Zero == 0
\* content of a destination element that no memcpy has written
Untouched == 0 - 1

MaxFrames == 2          \* frames asked of the device in one call
MaxResume == 2          \* times snd_pcm_resume answers -EAGAIN in one recovery

\* ---------------------------------------------------------------- state
VARIABLES
    created,        \* rb != NULL
    heapStruct,     \* the ring_buffer_t allocation is live
    heapBuf,        \* the storage allocation is live
    capacity, mask, buffer, write_index, read_index,
    stale,          \* per slot: overwritten contents the reader may still load
    createCall,     \* arguments, allocator outcomes and result of the last create
    wpc, wl,        \* writer thread: position and locals of ring_buffer_write
    rpc, rl,        \* reader thread: position and locals of ring_buffer_read
    written,        \* samples accepted by ring_buffer_write since create/reset
    delivered,      \* samples copied out by ring_buffer_read since create/reset
    reset_after_use,\* the last operation on the buffer was a reset after transfers
    effects,        \* the effect_chain_t of the program
    fpc, fl,        \* position and locals of effect_chain_process
    fx_samples,     \* samples passed to effect_chain_process since the init
    mpc, ml,        \* main: position and locals
    output_data,    \* main: the output buffer
    size_bits,      \* width of size_t in bits (fixed by the platform)
    apc, al         \* audio_io.c: position and locals of the call in progress

\* ----------------------------------------------------- size_t arithmetic
\* size_t is size_bits wide on the platform the program is built for
SizeMod == 2 ^ size_bits

\* a + b and a - b on size_t
Add(a, b) == (a + b) % SizeMod
Sub(a, b) == (a - b + SizeMod) % SizeMod

RECURSIVE BitAnd(_, _)
\* a & b
BitAnd(a, b) ==
    IF a = 0 \/ b = 0 THEN 0
    ELSE (a % 2) * (b % 2) + 2 * BitAnd(a \div 2, b \div 2)

\* ------------------------------------------------------------- memory orders
\* The order of each atomic access, as written in the source.  Only the
\* reader's load of write_index and store of read_index order plain accesses
\* of the storage against the other thread: a thread's loads of its own
\* cursor read its own stores, and the writer's plain stores follow its
\* load of read_index by the early return on to_write == 0.
MO_read_available_w == "relaxed"
MO_read_available_r == "relaxed"
MO_write_available_w == "relaxed"
MO_write_available_r == "relaxed"
MO_write_load_w == "relaxed"
MO_write_store_w == "release"
MO_read_load_r == "acquire"
MO_read_store_r == "relaxed"

IsAcquire(mo) == mo \in {"acquire", "acq_rel", "seq_cst"}
IsRelease(mo) == mo \in {"release", "acq_rel", "seq_cst"}

\* ------------------------------------------------------------- pure helpers
is_power_of_2(n) == n > 0 /\ BitAnd(n, n - 1) = 0

read_available_swapped(w, r) == Sub(r, w)
read_available_saturating(w, r) == IF w >= r THEN w - r ELSE 0
read_available(w, r) == Sub(w, r)

write_available_swapped(cap, w, r) == Sub(cap, Sub(r, w))
write_available(cap, w, r) == Sub(cap, Sub(w, r))

\* (count < available) ? count : available
ToTransfer_uncapped(count, available) == count
ToTransfer(count, available) == IF count < available THEN count ELSE available

\* chunk1 = capacity - pos; if (chunk1 > n) chunk1 = n;
Chunk1(cap, pos, n) == IF Sub(cap, pos) > n THEN n ELSE Sub(cap, pos)

\* slot of the i-th sample of a transfer: first memcpy starts at pos, the
\* second at slot 0
ChunkSlot_no_wrap(pos, chunk1, i) == pos + i
ChunkSlot(pos, chunk1, i) == IF i < chunk1 THEN pos + i ELSE i - chunk1

\* the value stored to a cursor at the end of a transfer of n samples
NextCursor_by_one(cursor, n) == Add(cursor, 1)
NextCursor(cursor, n) == Add(cursor, n)

\* storage of c slots after memset(buffer, 0, ...)
ZeroStorage_uninit(c) == [s \in 0..(c - 1) |-> Untouched]
ZeroStorage(c) == [s \in 0..(c - 1) |-> Zero]
NoStale(c) == [s \in 0..(c - 1) |-> {}]

\* the producer labels the samples it passes 1, 2, 3, ... in the order it
\* passes them (the code never inspects a sample's value); n samples were
\* accepted so far
NextSamples(n, count) == [k \in 1..count |-> n + k]
IsPrefix(s, t) == Len(s) <= Len(t) /\ \A k \in 1..Len(s) : s[k] = t[k]

vars == <<created, heapStruct, heapBuf, capacity, mask, buffer, write_index,
          read_index, stale, createCall, wpc, wl, rpc, rl, written, delivered,
          reset_after_use, effects, fpc, fl, fx_samples, mpc, ml, output_data,
          size_bits, apc, al>>

\* what no call on the ring buffer, the effect chain or main changes: the
\* platform's width and the calls on the audio device
hostVars == <<size_bits, apc, al>>

\* the ring_buffer_t and what no call on it changes
rbVars == <<created, heapStruct, heapBuf, capacity, mask, createCall,
            hostVars>>

\* the state of the ring buffer and of its two threads
ringVars == <<rbVars, reset_after_use, buffer, write_index, read_index, stale, wpc, wl, rpc, rl,
              written, delivered>>

\* the state of main outside the ring buffer and the effect chain
mainVars == <<mpc, ml, output_data>>

\* the state of the effect chain and of the program around it
appVars == <<effects, fpc, fl, fx_samples, mainVars>>

\* main's locals before the command line is read
MIdle == [total_frames |-> 0, effects_enabled |-> TRUE, gain_db |-> 0,
          lowpass_freq |-> 0, highpass_freq |-> 0, compress_enabled |-> FALSE,
          input_pos |-> 0, output_pos |-> 0, total_processed |-> 0,
          to_write |-> 0, to_read |-> 0, process_buffer |-> <<>>]

\* an effect_chain_t before effect_chain_init: nothing in it may be read
NoChain == [gain_enabled |-> FALSE, filter_enabled |-> FALSE,
            compressor_enabled |-> FALSE,
            gain |-> [gain |-> 0],
            filter |-> [b0 |-> 0, b1 |-> 0, b2 |-> 0, a1 |-> 0, a2 |-> 0,
                        x1 |-> 0, x2 |-> 0, y1 |-> 0, y2 |-> 0],
            compressor |-> [threshold |-> 0, ratio |-> 0, attack_coef |-> 0,
                            release_coef |-> 0, envelope |-> 0]]

FIdle == [buffer |-> <<>>, frames |-> 0, input |-> <<>>,
          pre |-> NoChain, ran |-> <<>>]

NoCall == [called |-> FALSE, cap |-> 0, structOk |-> FALSE, bufOk |-> FALSE,
           ret |-> "NULL"]

WIdle == [count |-> 0, data |-> <<>>, aw |-> 0, ar |-> 0, available |-> 0,
          to_write |-> 0, w |-> 0, write_pos |-> 0, chunk1 |-> 0, i |-> 0,
          ret |-> 0, pre_w |-> 0, pre_r |-> 0, pre_buf |-> <<>>,
          pre_n |-> 0]

\* no call on the audio device in progress
AIdle == [op |-> "none", frames |-> 0, io |-> 0, arg |-> 0, err |-> 0,
          calls |-> <<>>, result |-> 0]

RIdle == [count |-> 0, data |-> <<>>, aw |-> 0, ar |-> 0, available |-> 0,
          to_read |-> 0, r |-> 0, read_pos |-> 0, chunk1 |-> 0, i |-> 0,
          published |-> FALSE, ret |-> 0, pre_w |-> 0, pre_r |-> 0,
          pre_buf |-> <<>>, pre_n |-> 0]

\* the state before main has done anything, on a platform whose size_t is
\* bits wide
InitOn(bits) ==
    /\ size_bits = bits
    /\ created = FALSE /\ heapStruct = FALSE /\ heapBuf = FALSE
    /\ capacity = 0 /\ mask = 0 /\ buffer = ZeroStorage(0)
    /\ write_index = 0 /\ read_index = 0
    /\ stale = NoStale(0)
    /\ createCall = NoCall
    /\ wpc = "idle" /\ wl = WIdle
    /\ rpc = "idle" /\ rl = RIdle
    /\ written = <<>> /\ delivered = <<>>
    /\ reset_after_use = FALSE
    /\ effects = NoChain /\ fpc = "uninit" /\ fl = FIdle /\ fx_samples = 0
    /\ mpc = "start" /\ ml = MIdle /\ output_data = <<>>
    /\ apc = "idle" /\ al = AIdle

Init == InitOn(SizeBits)

\* ------------------------------------------------- create / free / reset
\* ring_buffer_create(capacity_samples); structOk and bufOk are the outcomes
\* of the two malloc calls
ring_buffer_create_leak(c, structOk, bufOk) ==
    /\ ~created
    /\ IF ~is_power_of_2(c) \/ ~structOk
       THEN /\ createCall' = [called |-> TRUE, cap |-> c, structOk |-> structOk,
                              bufOk |-> bufOk, ret |-> "NULL"]
            /\ UNCHANGED <<created, heapStruct, heapBuf, capacity, mask, buffer,
                           write_index, read_index, stale>>
       ELSE IF ~bufOk
       THEN /\ createCall' = [called |-> TRUE, cap |-> c, structOk |-> structOk,
                              bufOk |-> bufOk, ret |-> "NULL"]
            /\ heapStruct' = TRUE
            /\ UNCHANGED <<created, heapBuf, capacity, mask, buffer,
                           write_index, read_index, stale>>
       ELSE /\ createCall' = [called |-> TRUE, cap |-> c, structOk |-> structOk,
                              bufOk |-> bufOk, ret |-> "rb"]
            /\ created' = TRUE /\ heapStruct' = TRUE /\ heapBuf' = TRUE
            /\ capacity' = c /\ mask' = Sub(c, 1)
            /\ write_index' = 0 /\ read_index' = 0
            /\ buffer' = ZeroStorage(c)
            /\ stale' = NoStale(c)
    /\ reset_after_use' = FALSE
    /\ UNCHANGED <<wpc, wl, rpc, rl, written, delivered>>
    /\ UNCHANGED <<appVars, hostVars>>

ring_buffer_create(c, structOk, bufOk) ==
    /\ ~created
    /\ IF ~is_power_of_2(c) \/ ~structOk
       THEN \* return NULL before anything is allocated
            /\ createCall' = [called |-> TRUE, cap |-> c, structOk |-> structOk,
                              bufOk |-> bufOk, ret |-> "NULL"]
            /\ UNCHANGED <<created, heapStruct, heapBuf, capacity, mask, buffer,
                           write_index, read_index, stale>>
       ELSE IF ~bufOk
       THEN \* free(rb); return NULL
            /\ createCall' = [called |-> TRUE, cap |-> c, structOk |-> structOk,
                              bufOk |-> bufOk, ret |-> "NULL"]
            /\ heapStruct' = FALSE
            /\ UNCHANGED <<created, heapBuf, capacity, mask, buffer,
                           write_index, read_index, stale>>
       ELSE /\ createCall' = [called |-> TRUE, cap |-> c, structOk |-> structOk,
                              bufOk |-> bufOk, ret |-> "rb"]
            /\ created' = TRUE /\ heapStruct' = TRUE /\ heapBuf' = TRUE
            /\ capacity' = c /\ mask' = Sub(c, 1)
            /\ write_index' = 0 /\ read_index' = 0
            /\ buffer' = ZeroStorage(c)
            /\ stale' = NoStale(c)
    /\ reset_after_use' = FALSE
    /\ UNCHANGED <<wpc, wl, rpc, rl, written, delivered>>
    /\ UNCHANGED <<appVars, hostVars>>

\* ring_buffer_free(rb) with rb != NULL; the caller has stopped both threads
ring_buffer_free ==
    /\ created /\ wpc = "idle" /\ rpc = "idle"
    /\ created' = FALSE /\ heapStruct' = FALSE /\ heapBuf' = FALSE
    /\ capacity' = 0 /\ mask' = 0 /\ buffer' = ZeroStorage(0)
    /\ write_index' = 0 /\ read_index' = 0
    /\ stale' = NoStale(0)
    /\ written' = <<>> /\ delivered' = <<>>
    /\ reset_after_use' = FALSE
    /\ UNCHANGED <<createCall, wpc, wl, rpc, rl>>
    /\ UNCHANGED <<appVars, hostVars>>

\* ring_buffer_reset(rb); precondition: no write or read in flight
ring_buffer_reset_keep_data ==
    /\ created /\ wpc = "idle" /\ rpc = "idle"
    /\ write_index' = 0 /\ read_index' = 0
    /\ stale' = NoStale(capacity)
    /\ written' = <<>> /\ delivered' = <<>>
    /\ reset_after_use' = (write_index # 0 /\ read_index # 0)
    /\ UNCHANGED <<created, heapStruct, heapBuf, capacity, mask, createCall,
                   buffer, wpc, wl, rpc, rl>>
    /\ UNCHANGED <<appVars, hostVars>>

ring_buffer_reset ==
    /\ created /\ wpc = "idle" /\ rpc = "idle"
    /\ write_index' = 0 /\ read_index' = 0
    /\ buffer' = ZeroStorage(capacity)
    /\ stale' = NoStale(capacity)
    /\ written' = <<>> /\ delivered' = <<>>
    /\ reset_after_use' = (write_index # 0 /\ read_index # 0)
    /\ UNCHANGED <<created, heapStruct, heapBuf, capacity, mask, createCall,
                   wpc, wl, rpc, rl>>
    /\ UNCHANGED <<appVars, hostVars>>

\* ------------------------------------------------------ ring_buffer_write
\* slots the writer has stored in the call in flight and not yet published
WriterDirty ==
    IF wpc \in {"copy", "store"}
    THEN {ChunkSlot(wl.write_pos, wl.chunk1, k) : k \in 0..(wl.i - 1)}
    ELSE {}

\* the caller enters ring_buffer_write(rb, data, count)
W_call(data) ==
    /\ created /\ wpc = "idle"
    /\ wpc' = "avail_w"
    /\ wl' = [WIdle EXCEPT !.count = Len(data), !.data = data,
                           !.pre_w = write_index, !.pre_r = read_index,
                           !.pre_buf = buffer, !.pre_n = Len(written)]
    /\ reset_after_use' = FALSE
    /\ UNCHANGED <<rbVars, buffer, write_index, read_index, stale, rpc, rl,
                   written, delivered>>
    /\ UNCHANGED appVars

\* ring_buffer_write_available: load of write_index
W_avail_load_w ==
    /\ wpc = "avail_w"
    /\ wl' = [wl EXCEPT !.aw = write_index]
    /\ wpc' = "avail_r"
    /\ UNCHANGED <<rbVars, reset_after_use, buffer, write_index, read_index, stale, rpc, rl,
                   written, delivered>>
    /\ UNCHANGED appVars

\* ring_buffer_write_available: load of read_index and return; then
\* to_write and the early return of ring_buffer_write
W_avail_load_r_wait ==
    /\ wpc = "avail_r"
    /\ write_available(capacity, wl.aw, read_index) > 0
    /\ LET available == write_available(capacity, wl.aw, read_index)
           to_write == ToTransfer(wl.count, available)
       IN /\ wl' = [wl EXCEPT !.ar = read_index, !.available = available,
                              !.to_write = to_write, !.ret = 0]
          /\ wpc' = IF to_write = 0 THEN "ret" ELSE "load_w"
    /\ UNCHANGED <<rbVars, reset_after_use, buffer, write_index, read_index, stale, rpc, rl,
                   written, delivered>>
    /\ UNCHANGED appVars

W_avail_load_r ==
    /\ wpc = "avail_r"
    /\ LET available == write_available(capacity, wl.aw, read_index)
           to_write == ToTransfer(wl.count, available)
       IN /\ wl' = [wl EXCEPT !.ar = read_index, !.available = available,
                              !.to_write = to_write, !.ret = 0]
          /\ wpc' = IF to_write = 0 THEN "ret" ELSE "load_w"
    /\ UNCHANGED <<rbVars, reset_after_use, buffer, write_index, read_index, stale, rpc, rl,
                   written, delivered>>
    /\ UNCHANGED appVars

\* w = load(write_index); write_pos = w & mask; chunk1
W_load_w ==
    /\ wpc = "load_w"
    /\ LET write_pos == BitAnd(write_index, mask)
       IN wl' = [wl EXCEPT !.w = write_index, !.write_pos = write_pos,
                           !.chunk1 = Chunk1(capacity, write_pos, wl.to_write),
                           !.i = 0]
    /\ wpc' = "copy"
    /\ UNCHANGED <<rbVars, reset_after_use, buffer, write_index, read_index, stale, rpc, rl,
                   written, delivered>>
    /\ UNCHANGED appVars

\* one float of the two memcpy calls into the storage
W_copy ==
    /\ wpc = "copy" /\ wl.i < wl.to_write
    /\ LET slot == ChunkSlot(wl.write_pos, wl.chunk1, wl.i)
       IN IF slot \in DOMAIN buffer
          THEN /\ buffer' = [buffer EXCEPT ![slot] = wl.data[wl.i + 1]]
               /\ stale' = [stale EXCEPT ![slot] = @ \cup {buffer[slot]}]
          ELSE UNCHANGED <<buffer, stale>>
    /\ wl' = [wl EXCEPT !.i = @ + 1]
    /\ wpc' = IF wl.i + 1 = wl.to_write THEN "store" ELSE "copy"
    /\ UNCHANGED <<rbVars, reset_after_use, write_index, read_index, rpc, rl, written, delivered>>
    /\ UNCHANGED appVars

\* store(write_index, w + to_write)
W_store_by_count ==
    /\ wpc = "store"
    /\ write_index' = NextCursor(wl.w, wl.count)
    /\ written' = written \o SubSeq(wl.data, 1, wl.to_write)
    /\ wl' = [wl EXCEPT !.ret = wl.to_write]
    /\ wpc' = "ret"
    /\ UNCHANGED <<rbVars, reset_after_use, buffer, read_index, stale, rpc, rl, delivered>>
    /\ UNCHANGED appVars

W_store ==
    /\ wpc = "store"
    /\ write_index' = NextCursor(wl.w, wl.to_write)
    /\ written' = written \o SubSeq(wl.data, 1, wl.to_write)
    /\ wl' = [wl EXCEPT !.ret = wl.to_write]
    /\ wpc' = "ret"
    /\ UNCHANGED <<rbVars, reset_after_use, buffer, read_index, stale, rpc, rl, delivered>>
    /\ UNCHANGED appVars

\* ring_buffer_write has returned wl.ret; the caller takes the result
W_return ==
    /\ wpc = "ret"
    /\ wpc' = "idle" /\ wl' = WIdle
    /\ UNCHANGED <<rbVars, reset_after_use, buffer, write_index, read_index, stale, rpc, rl,
                   written, delivered>>
    /\ UNCHANGED appVars

\* ------------------------------------------------------- ring_buffer_read
\* the reader's view of the storage after a load of write_index with order mo
StaleAfterLoadW(mo) ==
    IF IsAcquire(mo) /\ IsRelease(MO_write_store_w)
    THEN [s \in DOMAIN stale |-> IF s \in WriterDirty THEN stale[s] ELSE {}]
    ELSE stale

\* the caller enters ring_buffer_read(rb, data, count); ordered is TRUE when
\* the call is ordered after every earlier call by the caller itself
R_call(count, ordered) ==
    /\ created /\ rpc = "idle"
    /\ rpc' = "avail_w"
    /\ rl' = [RIdle EXCEPT !.count = count,
                           !.data = [k \in 0..(count - 1) |-> Untouched],
                           !.pre_w = write_index, !.pre_r = read_index,
                           !.pre_buf = buffer, !.pre_n = Len(delivered)]
    /\ stale' = IF ordered THEN NoStale(capacity) ELSE stale
    /\ reset_after_use' = FALSE
    /\ UNCHANGED <<rbVars, buffer, write_index, read_index, wpc, wl,
                   written, delivered>>
    /\ UNCHANGED appVars

\* ring_buffer_read_available: load of write_index
R_avail_load_w ==
    /\ rpc = "avail_w"
    /\ rl' = [rl EXCEPT !.aw = write_index]
    /\ stale' = StaleAfterLoadW(MO_read_available_w)
    /\ rpc' = "avail_r"
    /\ UNCHANGED <<rbVars, reset_after_use, buffer, write_index, read_index, wpc, wl,
                   written, delivered>>
    /\ UNCHANGED appVars

\* ring_buffer_read_available: load of read_index and return; then to_read
\* and the early return of ring_buffer_read
R_avail_load_r ==
    /\ rpc = "avail_r"
    /\ LET available == read_available(rl.aw, read_index)
           to_read == ToTransfer(rl.count, available)
       IN /\ rl' = [rl EXCEPT !.ar = read_index, !.available = available,
                              !.to_read = to_read, !.ret = 0]
          /\ rpc' = IF to_read = 0 THEN "ret" ELSE "load_r"
    /\ UNCHANGED <<rbVars, reset_after_use, buffer, write_index, read_index, stale, wpc, wl,
                   written, delivered>>
    /\ UNCHANGED appVars

\* r = load(read_index); read_pos = r & mask; chunk1.  The load is an
\* acquire, but of the reader's own cursor: it reads a store of the reader
\* itself and synchronises with no store of the writer.
R_load_r ==
    /\ rpc = "load_r"
    /\ LET read_pos == BitAnd(read_index, mask)
       IN rl' = [rl EXCEPT !.r = read_index, !.read_pos = read_pos,
                           !.chunk1 = Chunk1(capacity, read_pos, rl.to_read),
                           !.i = 0, !.published = FALSE]
    /\ rpc' = "copy"
    /\ UNCHANGED <<rbVars, reset_after_use, buffer, write_index, read_index, stale, wpc, wl,
                   written, delivered>>
    /\ UNCHANGED appVars

\* one float of the two memcpy calls out of the storage
R_copy ==
    /\ rpc = "copy" /\ rl.i < rl.to_read
    /\ LET slot == ChunkSlot(rl.read_pos, rl.chunk1, rl.i)
       IN \E v \in (IF slot \in DOMAIN buffer
                    THEN {buffer[slot]} \cup stale[slot] ELSE {Untouched}) :
            /\ rl' = [rl EXCEPT !.data[rl.i] = v, !.i = @ + 1]
            /\ delivered' = Append(delivered, v)
    /\ rpc' = IF rl.i + 1 = rl.to_read /\ rl.published THEN "ret" ELSE "copy"
    /\ UNCHANGED <<rbVars, reset_after_use, buffer, write_index, read_index, stale, wpc, wl,
                   written>>
    /\ UNCHANGED appVars

\* store(read_index, r + to_read) with order mo: a release store takes
\* effect after every copy; any weaker store may take effect before copies
\* that are sequenced before it
R_store_mo(mo) ==
    /\ rpc = "copy" /\ ~rl.published
    /\ rl.i = rl.to_read \/ ~IsRelease(mo)
    /\ read_index' = NextCursor(rl.r, rl.to_read)
    /\ rl' = [rl EXCEPT !.published = TRUE, !.ret = rl.to_read]
    /\ rpc' = IF rl.i = rl.to_read THEN "ret" ELSE "copy"
    /\ UNCHANGED <<rbVars, reset_after_use, buffer, write_index, stale, wpc, wl, written,
                   delivered>>
    /\ UNCHANGED appVars

R_store == R_store_mo(MO_read_store_r)

\* ring_buffer_read has returned rl.ret; the caller takes the result
R_return ==
    /\ rpc = "ret"
    /\ rpc' = "idle" /\ rl' = RIdle
    /\ UNCHANGED <<rbVars, reset_after_use, buffer, write_index, read_index, stale, wpc, wl,
                   written, delivered>>
    /\ UNCHANGED appVars

\* ---------------------------------------------------------- specifications
Create == \E c \in 0..MaxCapacity, structOk \in BOOLEAN, bufOk \in BOOLEAN :
              ring_buffer_create(c, structOk, bufOk)

WriterStep == W_avail_load_w \/ W_avail_load_r \/ W_load_w \/ W_copy
              \/ W_store \/ W_return

ReaderStep == R_avail_load_w \/ R_avail_load_r \/ R_load_r \/ R_copy
              \/ R_store \/ R_return

\* two threads: a write and a read may be in flight at the same time
WriteConcurrent ==
    \E count \in 0..MaxCount :
        /\ Len(written) + count <= MaxTotal
        /\ W_call(NextSamples(Len(written), count))
ReadConcurrent == \E count \in 0..MaxCount : R_call(count, FALSE)

Next ==
    \/ Create
    \/ ring_buffer_free
    \/ ring_buffer_reset
    \/ WriteConcurrent
    \/ ReadConcurrent
    \/ WriterStep
    \/ ReaderStep

Spec == Init /\ [][Next]_vars

\* calls made one at a time: no call begins while another is in flight
WriteSequential ==
    /\ rpc = "idle"
    /\ \E count \in 0..MaxCount :
        /\ Len(written) + count <= MaxTotalSeq
        /\ W_call(NextSamples(Len(written), count))
ReadSequential ==
    /\ wpc = "idle"
    /\ \E count \in 0..MaxCount : R_call(count, TRUE)

SeqNext ==
    \/ Create
    \/ ring_buffer_free
    \/ ring_buffer_reset
    \/ WriteSequential
    \/ ReadSequential
    \/ WriterStep
    \/ ReaderStep

SpecSeq == Init /\ [][SeqNext]_vars

\* the same calls made one at a time, with a size_t narrow enough for the
\* cursors to pass 2^OverflowBits - 1 within MaxTotalSeq samples
SpecOverflow == InitOn(OverflowBits) /\ [][SeqNext]_vars

\* -------------------------------------------------------------- type check
TypeOK ==
    /\ created \in BOOLEAN /\ reset_after_use \in BOOLEAN
    /\ capacity \in 0..(SizeMod - 1)
    /\ write_index \in 0..(SizeMod - 1) /\ read_index \in 0..(SizeMod - 1)
    /\ DOMAIN buffer = 0..(capacity - 1)
    /\ wpc \in {"idle", "avail_w", "avail_r", "load_w", "copy", "store", "ret"}
    /\ rpc \in {"idle", "avail_w", "avail_r", "load_r", "copy", "ret", "abort"}

\* ------------------------------------------------------------ concurrency
\* slots the writer stores in the call in flight (stored or still to store)
WriterRange ==
    IF wpc \in {"copy", "store"}
    THEN {ChunkSlot(wl.write_pos, wl.chunk1, k) : k \in 0..(wl.to_write - 1)}
    ELSE {}

\* slots the reader has still to copy out in the call in flight
ReaderPending ==
    IF rpc = "copy"
    THEN {ChunkSlot(rl.read_pos, rl.chunk1, k) : k \in rl.i..(rl.to_read - 1)}
    ELSE {}

\* C1: with one writer and one reader interleaved step by step, the samples
\* delivered to the reader are always a prefix of the samples accepted from
\* the writer (nothing reordered, duplicated, lost or altered).
C1_ConcurrentFIFO == IsPrefix(delivered, written)

\* C2: the reader's load of the write cursor is an acquire that pairs with
\* the writer's release store, so whenever the reader is about to copy
\* samples out, the writer's stores to those slots are visible to it (no
\* overwritten content of such a slot can still be loaded).
C2_AcquireMakesDataVisible == \A s \in ReaderPending : stale[s] = {}

\* C3: with the relaxed read cursor, the slots the writer stores into and
\* the slots the reader has not finished copying out are always disjoint.
C3_RelaxedReadCursorSuffices == WriterRange \cap ReaderPending = {}

\* ------------------------------------------------------------- invariants
BothIdle == wpc = "idle" /\ rpc = "idle"

\* C4: in every reachable state, under any interleaving of one writer and
\* one reader, 0 <= write_index - read_index <= capacity (in size_t
\* arithmetic), and capacity and mask never change while the buffer exists.
C4_OccupancyWithinCapacity ==
    /\ [](created => Sub(write_index, read_index) \in 0..capacity)
    /\ [][(created /\ created') => (capacity' = capacity /\ mask' = mask)]_vars

\* a write has just filled the buffer while a read is copying samples out
C4_Witness ==
    /\ created /\ capacity >= 2
    /\ wpc = "ret" /\ wl.ret >= 1 /\ rpc = "copy"
    /\ Sub(write_index, read_index) = capacity

\* ------------------------------------------------- calls made one at a time
Min(a, b) == IF a <= b THEN a ELSE b

\* C5: for calls made one at a time, the samples returned by the reads are,
\* in order, a prefix of the samples accepted by the writes, and all of them
\* once read_available() is 0; a write that requests at most
\* write_available() samples has all of them accepted.
C5_SequentialFIFO ==
    /\ IsPrefix(delivered, written)
    /\ (created /\ BothIdle /\ read_available(write_index, read_index) = 0)
           => delivered = written
    /\ (wpc = "ret" /\ wl.count <= write_available(capacity, wl.pre_w, wl.pre_r))
           => (wl.ret = wl.count /\ Len(written) >= wl.count
               /\ SubSeq(written, Len(written) - wl.count + 1, Len(written))
                      = wl.data)

\* everything written has been read back, over several calls and past the
\* end of the storage
C5_Witness ==
    /\ created /\ BothIdle
    /\ read_available(write_index, read_index) = 0
    /\ delivered = written /\ Len(delivered) > capacity

\* a power of two, stated without the bit trick
PowerOfTwo(c) == \E k \in 0..SizeBits : c = 2 ^ k

\* C6: ring_buffer_create returns NULL for every capacity that is not a
\* positive power of two (0 included) and when either allocation fails, and
\* then no allocation is retained.
C6_CreateFailure ==
    (createCall.called
       /\ (~PowerOfTwo(createCall.cap) \/ ~createCall.structOk
           \/ ~createCall.bufOk))
    => (createCall.ret = "NULL" /\ ~created /\ ~heapStruct /\ ~heapBuf)

\* the struct was allocated and the storage allocation failed
C6_Witness ==
    /\ createCall.called /\ PowerOfTwo(createCall.cap)
    /\ createCall.structOk /\ ~createCall.bufOk
    /\ createCall.ret = "NULL"

C8_WriteContract ==
    wpc = "ret" =>
      LET free == capacity - (wl.pre_n - Len(delivered))
          n == Min(wl.count, free)
          target == {(wl.pre_w + k) % capacity : k \in 0..(n - 1)}
      IN /\ write_available(capacity, wl.pre_w, wl.pre_r) = free
         /\ wl.ret = n
         /\ written = [k \in 1..(wl.pre_n + n) |-> k]
         /\ write_index = Add(wl.pre_w, n)
         /\ read_index = wl.pre_r
         /\ \A k \in 0..(n - 1) :
                buffer[(wl.pre_w + k) % capacity] = wl.data[k + 1]
         /\ \A s \in DOMAIN buffer \ target : buffer[s] = wl.pre_buf[s]
         /\ n = 0 => (buffer = wl.pre_buf /\ write_index = wl.pre_w)

\* a short write that wraps past the end of the storage
C8_Witness ==
    /\ wpc = "ret" /\ wl.ret >= 2 /\ wl.ret < wl.count
    /\ wl.chunk1 < wl.ret

\* C9: ring_buffer_read returns n = min(count, read_available()), delivers
\* exactly the n oldest unread samples in order and advances the read cursor
\* by exactly n; with n = 0 the destination, both cursors and the storage
\* are unchanged.
C9_ReadContract ==
    rpc = "ret" =>
      LET unread == Len(written) - rl.pre_n
          n == Min(rl.count, unread)
      IN /\ read_available(rl.pre_w, rl.pre_r) = unread
         /\ rl.ret = n
         /\ read_index = Add(rl.pre_r, n)
         /\ write_index = rl.pre_w
         /\ buffer = rl.pre_buf
         /\ Len(written) >= rl.pre_n + n
         /\ \A k \in 0..(n - 1) :
                /\ rl.data[k] = written[rl.pre_n + k + 1]
                /\ rl.data[k] = rl.pre_buf[(rl.pre_r + k) % capacity]
         /\ \A k \in n..(rl.count - 1) : rl.data[k] = Untouched
         /\ delivered = SubSeq(written, 1, rl.pre_n + n)

\* a short read that wraps past the end of the storage
C9_Witness ==
    /\ rpc = "ret" /\ rl.ret >= 2 /\ rl.ret < rl.count
    /\ rl.chunk1 < rl.ret

\* C10: with no write or read in flight,
\* read_available() + write_available() = capacity.
C10_AvailableSum ==
    (created /\ BothIdle) =>
        read_available(write_index, read_index)
          + write_available(capacity, write_index, read_index) = capacity

\* a partly filled buffer after writes, reads and a reset
C10_Witness ==
    /\ created /\ BothIdle /\ capacity = 4
    /\ read_available(write_index, read_index) \in 1..3
    /\ Len(delivered) >= 1

\* ------------------------------------------------- test_wrap_around
\* ring_buffer_create(64)
WrapCapacity == 64
\* ring_buffer_write(rb, write_data, 40)
WrapFirstWrite == 40
\* ring_buffer_read(rb, read_data, 30)
WrapFirstRead == 30
\* ring_buffer_write(rb, write_data, 30)
WrapSecondWrite == 30

\* the test, one call after the other on one thread, followed by the read of
\* everything that ring_buffer_read_available reports
WrapTest_create ==
    /\ ~createCall.called
    /\ ring_buffer_create(WrapCapacity, TRUE, TRUE)

WrapTest_write_first ==
    /\ BothIdle /\ Len(written) = 0 /\ Len(delivered) = 0
    /\ W_call(NextSamples(0, WrapFirstWrite))

WrapTest_read_first ==
    /\ BothIdle /\ Len(written) = WrapFirstWrite /\ Len(delivered) = 0
    /\ R_call(WrapFirstRead, TRUE)

WrapTest_write_second ==
    /\ BothIdle /\ Len(written) = WrapFirstWrite
    /\ Len(delivered) = WrapFirstRead
    /\ W_call(NextSamples(WrapFirstWrite, WrapSecondWrite))

WrapTest_read_rest ==
    /\ BothIdle /\ Len(written) = WrapFirstWrite + WrapSecondWrite
    /\ Len(delivered) = WrapFirstRead
    /\ R_call(read_available(write_index, read_index), TRUE)

WrapTest_free ==
    /\ Len(written) = WrapFirstWrite + WrapSecondWrite
    /\ Len(delivered) = Len(written)
    /\ ring_buffer_free

WrapTestNext ==
    \/ WrapTest_create
    \/ WrapTest_write_first
    \/ WrapTest_read_first
    \/ WrapTest_write_second
    \/ WrapTest_read_rest
    \/ WrapTest_free
    \/ WriterStep
    \/ ReaderStep

SpecWrapTest == Init /\ [][WrapTestNext]_vars

\* C11: a transfer that crosses the end of the storage is split into two
\* contiguous copies, the first of min(n, capacity - (cursor & mask))
\* samples and the rest from slot 0, so that sample i uses slot
\* (cursor + i) & mask; on a capacity-64 buffer, write 40, read 30, write 30
\* transfer their full count, read_available is then 40, and the next 40
\* samples read are the last 10 of the first write followed by the 30 of
\* the second.
C11_WrapAround ==
    /\ wpc \in {"copy", "store"} =>
         /\ wl.chunk1 = Min(wl.to_write, capacity - BitAnd(wl.w, mask))
         /\ \A k \in 0..(wl.to_write - 1) :
              ChunkSlot(wl.write_pos, wl.chunk1, k) = BitAnd(wl.w + k, mask)
    /\ rpc = "copy" =>
         /\ rl.chunk1 = Min(rl.to_read, capacity - BitAnd(rl.r, mask))
         /\ \A k \in 0..(rl.to_read - 1) :
              ChunkSlot(rl.read_pos, rl.chunk1, k) = BitAnd(rl.r + k, mask)
    /\ wpc = "ret" => wl.ret = wl.count
    /\ rpc = "ret" => rl.ret = rl.count
    /\ (BothIdle /\ Len(written) = WrapFirstWrite + WrapSecondWrite
          /\ Len(delivered) = WrapFirstRead)
         => read_available(write_index, read_index) = 40
    /\ (rpc = "ret" /\ Len(written) = WrapFirstWrite + WrapSecondWrite)
         => /\ rl.count = 40
            /\ \A k \in 0..39 :
                 rl.data[k] =
                   IF k < 10
                   THEN NextSamples(0, WrapFirstWrite)[WrapFirstRead + k + 1]
                   ELSE NextSamples(WrapFirstWrite, WrapSecondWrite)[k - 10 + 1]

\* the last read of the test has returned, after the second write wrapped
C11_Witness ==
    /\ rpc = "ret" /\ rl.ret = 40 /\ capacity = WrapCapacity
    /\ rl.chunk1 < rl.ret
    /\ Len(written) = WrapFirstWrite + WrapSecondWrite

\* --------------------------------------------------- test_threading
\* the test's capacity (256) and sample count (10000), scaled down with the
\* capacity still a power of two below the sample count
StressCapacityBits == 1
StressExtra == 1
StressCapacity == 2 ^ StressCapacityBits
StressSamples == StressCapacity + StressExtra

\* the consumer's assert has failed: the process is gone
Aborted == rpc = "abort"

Stress_create ==
    /\ ~createCall.called
    /\ ring_buffer_create(StressCapacity, TRUE, TRUE)

\* producer_thread: sample i is written alone, again and again until the
\* write returns 1; i is the number of samples accepted so far
producer_call ==
    /\ ~Aborted /\ Len(written) < StressSamples
    /\ W_call(NextSamples(Len(written), 1))

producer_step == ~Aborted /\ WriterStep

\* consumer_thread: one sample per call while consumed < samples_to_produce
consumer_call ==
    /\ Len(delivered) < StressSamples
    /\ R_call(1, FALSE)

consumer_step ==
    R_avail_load_w \/ R_avail_load_r \/ R_load_r \/ R_copy \/ R_store

\* the read has returned: assert(sample == (float)consumed); consumed++
\* (the sample numbered consumed carries the label consumed + 1, and the
\* sample just read is already counted in delivered)
consumer_return ==
    /\ rpc = "ret"
    /\ IF rl.ret = 1 /\ rl.data[0] # Len(delivered)
       THEN /\ rpc' = "abort"
            /\ UNCHANGED <<rbVars, reset_after_use, buffer, write_index, read_index, stale,
                           wpc, wl, rl, written, delivered, appVars>>
       ELSE R_return

\* both threads joined, assert(data.samples_consumed == 10000), free
Stress_free ==
    /\ Len(written) = StressSamples /\ Len(delivered) = StressSamples
    /\ ring_buffer_free

Producer == producer_call \/ producer_step
Consumer == consumer_call \/ consumer_step \/ consumer_return

StressNext ==
    \/ Stress_create
    \/ Producer
    \/ Consumer
    \/ Stress_free

\* both threads are scheduled again and again while they can run
SpecStress ==
    /\ Init /\ [][StressNext]_vars
    /\ WF_vars(Stress_create) /\ WF_vars(Producer) /\ WF_vars(Consumer)

WriterRank ==
    CASE wpc = "idle" -> 0
      [] wpc = "ret" -> 1
      [] wpc = "store" -> 2
      [] wpc = "copy" -> 3 + (wl.to_write - wl.i)
      [] wpc = "load_w" -> 4 + wl.to_write
      [] wpc = "avail_r" -> 5 + wl.count
      [] wpc = "avail_w" -> 6 + wl.count

\* the same for the reader's call in flight
ReaderRank ==
    CASE rpc = "idle" -> 0
      [] rpc = "ret" -> 1
      [] rpc = "copy" -> 2 + (rl.to_read - rl.i)
                           + (IF rl.published THEN 0 ELSE 1)
      [] rpc = "load_r" -> 4 + rl.to_read
      [] rpc = "avail_r" -> 5 + rl.count
      [] rpc = "avail_w" -> 6 + rl.count

\* C13: write, read, read_available and write_available never block: a
\* call in flight can always take the step of its position whatever state
\* the other thread is in, every step of a call brings it strictly closer to its
\* return, a call of count samples returns within count + 6 of its own
\* steps, and the steps of the other thread do not put it back.
C13_NonBlocking ==
    /\ [](/\ wpc = "avail_w" => ENABLED W_avail_load_w
          /\ wpc = "avail_r" => ENABLED W_avail_load_r
          /\ wpc = "load_w" => ENABLED W_load_w
          /\ wpc = "copy" => ENABLED W_copy
          /\ wpc = "store" => ENABLED W_store
          /\ wpc = "ret" => ENABLED W_return
          /\ rpc = "avail_w" => ENABLED R_avail_load_w
          /\ rpc = "avail_r" => ENABLED R_avail_load_r
          /\ rpc = "load_r" => ENABLED R_load_r
          /\ rpc = "copy" => ENABLED (R_copy \/ R_store)
          /\ rpc = "ret" => ENABLED R_return
          /\ WriterRank <= wl.count + 6
          /\ ReaderRank <= rl.count + 6)
    /\ [][/\ (wpc # "idle" /\ <<wpc, wl>>' # <<wpc, wl>>)
               => WriterRank' < WriterRank
          /\ (rpc # "idle" /\ <<rpc, rl>>' # <<rpc, rl>>)
               => ReaderRank' < ReaderRank
          /\ (wpc # "idle" /\ <<rpc, rl>>' # <<rpc, rl>>)
               => WriterRank' = WriterRank
          /\ (rpc # "idle" /\ <<wpc, wl>>' # <<wpc, wl>>)
               => ReaderRank' = ReaderRank]_vars

\* a write has returned 0 from a full buffer while the reader is stopped in
\* the middle of its copy
C13_Witness ==
    /\ wpc = "ret" /\ wl.count > 0 /\ wl.ret = 0
    /\ rpc = "copy" /\ rl.i < rl.to_read /\ ~rl.published

\* ------------------------------------------------------------- reset
\* C14: ring_buffer_reset, called with no write or read in flight after any
\* history, sets both cursors to 0 and every slot to zero and leaves
\* capacity and mask as they were, so that read_available is 0,
\* write_available is the capacity, and the buffer is in the state
\* ring_buffer_create of the same capacity gives.  (The only steps that
\* start and end with the buffer created and no call in flight are resets.)
C14_Reset ==
    [][(created /\ created' /\ BothIdle /\ BothIdle')
         => /\ write_index' = 0 /\ read_index' = 0
            /\ DOMAIN buffer' = 0..(capacity - 1)
            /\ \A s \in DOMAIN buffer' : buffer'[s] = 0
            /\ capacity' = capacity /\ mask' = mask
            /\ read_available(write_index', read_index') = 0
            /\ write_available(capacity', write_index', read_index') = capacity
            /\ stale' = NoStale(capacity)
            /\ mask' = Sub(capacity', 1)]_vars

\* a buffer whose two cursors had moved has just been reset
C14_Witness ==
    /\ created /\ BothIdle /\ reset_after_use
    /\ write_index = 0 /\ read_index = 0 /\ written = <<>>
    /\ capacity >= 2

\* ------------------------------------------------------------ effects.c
\* float arithmetic is modelled in fixed point: the integer v stands for
\* the float v / One, and every product and quotient is rounded toward zero
One == 4

\* quotient of integers rounded toward zero, b > 0
RoundDiv(a, b) == IF a >= 0 THEN a \div b ELSE 0 - ((0 - a) \div b)
\* the float product a * b
FMul(a, b) == RoundDiv(a * b, One)
\* the float quotient a / b, b > 0
FDiv(a, b) == RoundDiv(a * One, b)
\* fabsf
fabsf(a) == IF a < 0 THEN 0 - a ELSE a

RECURSIVE IntPow(_, _)
IntPow(a, n) == IF n = 0 THEN 1 ELSE a * IntPow(a, n - 1)

\* powf(overshoot, 1.0f / ratio - 1.0f) for an integer ratio R and
\* overshoot > 1: the largest g with (g/One)^R * (overshoot/One)^(R-1) <= 1
\* (which is 0 as soon as overshoot exceeds One^3 and R >= 2)
powf_ratio(overshoot, R) ==
    IF R >= 2 /\ overshoot > One * One * One
    THEN 0
    ELSE
    CHOOSE g \in 0..One :
        /\ IntPow(g, R) * IntPow(overshoot, R - 1) <= IntPow(One, 2 * R - 1)
        /\ \A h \in (g + 1)..One :
              IntPow(h, R) * IntPow(overshoot, R - 1) > IntPow(One, 2 * R - 1)

\* gain_init: gain = powf(10.0f, gain_db / 20.0f); the argument g is that
\* power, already evaluated
gain_init(g) == [gain |-> g]

\* gain_process: buffer[i] *= gain
gain_process(gain, buf) ==
    [k \in DOMAIN buf |-> FMul(buf[k], gain.gain)]

\* biquad_reset: x1 = x2 = y1 = y2 = 0
biquad_reset_keep_y(f) == [f EXCEPT !.x1 = 0, !.x2 = 0]

biquad_reset(f) == [f EXCEPT !.x1 = 0, !.x2 = 0, !.y1 = 0, !.y2 = 0]

\* biquad_lowpass_init; cos_w0 = cosf(w0) and sin_w0 = sinf(w0) are passed
\* already evaluated, q is the quality factor
biquad_lowpass_init_no_reset(f, cos_w0, sin_w0, q) ==
    LET alpha == FDiv(sin_w0, 2 * q)
        a0 == One + alpha
    IN [f EXCEPT
          !.b0 = FDiv(FDiv(One - cos_w0, 2 * One), a0),
          !.b1 = FDiv(One - cos_w0, a0),
          !.b2 = FDiv(FDiv(One - cos_w0, 2 * One), a0),
          !.a1 = FDiv(FMul(0 - 2 * One, cos_w0), a0),
          !.a2 = FDiv(One - alpha, a0)]

biquad_lowpass_init(f, cos_w0, sin_w0, q) ==
    LET alpha == FDiv(sin_w0, 2 * q)
        a0 == One + alpha
    IN biquad_reset([f EXCEPT
          !.b0 = FDiv(FDiv(One - cos_w0, 2 * One), a0),
          !.b1 = FDiv(One - cos_w0, a0),
          !.b2 = FDiv(FDiv(One - cos_w0, 2 * One), a0),
          !.a1 = FDiv(FMul(0 - 2 * One, cos_w0), a0),
          !.a2 = FDiv(One - alpha, a0)])

\* biquad_highpass_init, same arguments
biquad_highpass_init(f, cos_w0, sin_w0, q) ==
    LET alpha == FDiv(sin_w0, 2 * q)
        a0 == One + alpha
    IN biquad_reset([f EXCEPT
          !.b0 = FDiv(FDiv(One + cos_w0, 2 * One), a0),
          !.b1 = FDiv(0 - (One + cos_w0), a0),
          !.b2 = FDiv(FDiv(One + cos_w0, 2 * One), a0),
          !.a1 = FDiv(FMul(0 - 2 * One, cos_w0), a0),
          !.a2 = FDiv(One - alpha, a0)])

\* biquad_process_sample: the output and the filter with its shifted state
biquad_process_sample_shift_late(f, input) ==
    LET output == FMul(f.b0, input) + FMul(f.b1, f.x1) + FMul(f.b2, f.x2)
                    - FMul(f.a1, f.y1) - FMul(f.a2, f.y2)
    IN [output |-> output,
        filter |-> [f EXCEPT !.x1 = input, !.x2 = input,
                             !.y2 = f.y1, !.y1 = output]]

biquad_process_sample(f, input) ==
    LET output == FMul(f.b0, input) + FMul(f.b1, f.x1) + FMul(f.b2, f.x2)
                    - FMul(f.a1, f.y1) - FMul(f.a2, f.y2)
    IN [output |-> output,
        filter |-> [f EXCEPT !.x2 = f.x1, !.x1 = input,
                             !.y2 = f.y1, !.y1 = output]]

\* the loop of biquad_process from sample k on
RECURSIVE biquad_loop(_, _, _)
biquad_loop(f, buf, k) ==
    IF k > Len(buf)
    THEN [filter |-> f, buffer |-> buf]
    ELSE LET r == biquad_process_sample(f, buf[k])
         IN biquad_loop(r.filter, [buf EXCEPT ![k] = r.output], k + 1)

\* biquad_process: the filter and the buffer after the call
biquad_process_restart(f, buf) == biquad_loop(biquad_reset(f), buf, 1)

biquad_process(f, buf) == biquad_loop(f, buf, 1)

\* compressor_init; threshold = powf(10, threshold_db / 20) and the two
\* coefficients expf(-1 / (ms * 0.001 * sample_rate)) are passed evaluated
compressor_init(threshold, ratio, attack_coef, release_coef) ==
    [threshold |-> threshold, ratio |-> ratio, attack_coef |-> attack_coef,
     release_coef |-> release_coef, envelope |-> 0]

\* one iteration of the loop of compressor_process
compressor_sample_attack_on_equal(c, x) ==
    LET input == fabsf(x)
        coef == IF input >= c.envelope THEN c.attack_coef ELSE c.release_coef
        envelope == FMul(coef, c.envelope) + FMul(One - coef, input)
        gain == IF envelope > c.threshold
                THEN powf_ratio(FDiv(envelope, c.threshold), c.ratio)
                ELSE One
    IN [output |-> FMul(x, gain),
        compressor |-> [c EXCEPT !.envelope = envelope]]

compressor_sample(c, x) ==
    LET input == fabsf(x)
        coef == IF input > c.envelope THEN c.attack_coef ELSE c.release_coef
        envelope == FMul(coef, c.envelope) + FMul(One - coef, input)
        gain == IF envelope > c.threshold
                THEN powf_ratio(FDiv(envelope, c.threshold), c.ratio)
                ELSE One
    IN [output |-> FMul(x, gain),
        compressor |-> [c EXCEPT !.envelope = envelope]]

RECURSIVE compressor_loop(_, _, _)
compressor_loop(c, buf, k) ==
    IF k > Len(buf)
    THEN [compressor |-> c, buffer |-> buf]
    ELSE LET r == compressor_sample(c, buf[k])
         IN compressor_loop(r.compressor, [buf EXCEPT ![k] = r.output], k + 1)

\* compressor_process: the compressor and the buffer after the call
compressor_process(c, buf) == compressor_loop(c, buf, 1)

\* --------------------------------------------- the effect chain in use
\* longest block passed to effect_chain_process
MaxBlock == 2
\* most samples processed after one effect_chain_init
MaxFxSamples == 3

\* sample values: -1.0 and 1.0
SampleValues == {0 - One, One}
\* powf(10, gain_db / 20) for gain_db = +6
GainValues == {2 * One}
\* <<cosf(w0), sinf(w0)>> for w0 = pi/3
TrigValues == {<<One \div 2, 3>>}
\* q: 0.75
QValues == {3}
\* powf(10, threshold_db / 20): 0.25
ThresholdValues == {1}
\* ratio
RatioValues == {4}
\* expf(-1 / (attack_ms * 0.001 * sample_rate))
AttackValues == {One \div 2}
\* expf(-1 / (release_ms * 0.001 * sample_rate))
ReleaseValues == {3}

\* the blocks of at most n samples
Blocks(n) == UNION {[1..k -> SampleValues] : k \in 0..n}

\* effect_chain_init: 0 dB gain, 2 kHz low-pass with q = 0.707, compressor
\* -20 dB 4:1 10 ms / 100 ms, every stage disabled.  The low-pass and the
\* compressor get the nearest values the fixed-point scale offers.
InitialChain_filter_on ==
    [gain_enabled |-> FALSE, filter_enabled |-> TRUE,
     compressor_enabled |-> FALSE,
     gain |-> gain_init(One),
     filter |-> biquad_lowpass_init(NoChain.filter, One \div 2, 3, 3),
     compressor |-> compressor_init(1, 4, One \div 2, 3)]

InitialChain ==
    [gain_enabled |-> FALSE, filter_enabled |-> FALSE,
     compressor_enabled |-> FALSE,
     gain |-> gain_init(One),
     filter |-> biquad_lowpass_init(NoChain.filter, One \div 2, 3, 3),
     compressor |-> compressor_init(1, 4, One \div 2, 3)]

effect_chain_init ==
    /\ fpc \in {"uninit", "idle"}
    /\ effects' = InitialChain
    /\ fpc' = "idle" /\ fl' = FIdle /\ fx_samples' = 0
    /\ UNCHANGED <<ringVars, mainVars, mainVars>>

\* chain->gain_enabled = ..., chain->filter_enabled = ...,
\* chain->compressor_enabled = ...
Fx_set_enabled(g, f, c) ==
    /\ fpc = "idle"
    /\ effects' = [effects EXCEPT !.gain_enabled = g, !.filter_enabled = f,
                                  !.compressor_enabled = c]
    /\ UNCHANGED <<ringVars, mainVars, fpc, fl, fx_samples>>

Fx_gain_init(g) ==
    /\ fpc = "idle"
    /\ effects' = [effects EXCEPT !.gain = gain_init(g)]
    /\ UNCHANGED <<ringVars, mainVars, fpc, fl, fx_samples>>

\* the three reconfigurations below keep the chain before the call in fl.pre
Fx_biquad_lowpass_init(trig, q) ==
    /\ fpc = "idle"
    /\ effects' = [effects EXCEPT
                     !.filter = biquad_lowpass_init(@, trig[1], trig[2], q)]
    /\ fl' = [FIdle EXCEPT !.pre = effects]
    /\ fpc' = "filter_init_ret"
    /\ UNCHANGED <<ringVars, mainVars, fx_samples>>

Fx_biquad_highpass_init(trig, q) ==
    /\ fpc = "idle"
    /\ effects' = [effects EXCEPT
                     !.filter = biquad_highpass_init(@, trig[1], trig[2], q)]
    /\ fl' = [FIdle EXCEPT !.pre = effects]
    /\ fpc' = "filter_init_ret"
    /\ UNCHANGED <<ringVars, mainVars, fx_samples>>

Fx_compressor_init(threshold, ratio, attack_coef, release_coef) ==
    /\ fpc = "idle"
    /\ effects' = [effects EXCEPT
                     !.compressor = compressor_init(threshold, ratio,
                                                    attack_coef, release_coef)]
    /\ fl' = [FIdle EXCEPT !.pre = effects]
    /\ fpc' = "compressor_init_ret"
    /\ UNCHANGED <<ringVars, mainVars, fx_samples>>

\* biquad_reset(&chain->filter); the chain before the call is kept in fl.pre
Fx_biquad_reset ==
    /\ fpc = "idle"
    /\ effects' = [effects EXCEPT !.filter = biquad_reset(@)]
    /\ fl' = [FIdle EXCEPT !.pre = effects]
    /\ fpc' = "reset_ret"
    /\ UNCHANGED <<ringVars, mainVars, fx_samples>>

\* the caller enters effect_chain_process(chain, buffer, frames)
Fx_call(block) ==
    /\ fpc = "idle" /\ fx_samples + Len(block) <= MaxFxSamples
    /\ fl' = [buffer |-> block, frames |-> Len(block), input |-> block,
              pre |-> effects, ran |-> <<>>]
    /\ fpc' = "gain"
    /\ fx_samples' = fx_samples + Len(block)
    /\ UNCHANGED <<ringVars, mainVars, effects>>

\* if (chain->gain_enabled) gain_process(...)
Fx_gain_stage ==
    /\ fpc = "gain"
    /\ IF effects.gain_enabled
       THEN LET out == gain_process(effects.gain, fl.buffer)
            IN fl' = [fl EXCEPT !.buffer = out,
                        !.ran = Append(@, [stage |-> "gain",
                                           input |-> fl.buffer,
                                           output |-> out])]
       ELSE UNCHANGED fl
    /\ fpc' = "filter"
    /\ UNCHANGED <<ringVars, mainVars, effects, fx_samples>>

\* if (chain->filter_enabled) biquad_process(...)
Fx_filter_stage_always ==
    /\ fpc = "filter"
    /\ LET r == biquad_process(effects.filter, fl.buffer)
       IN /\ effects' = [effects EXCEPT !.filter = r.filter]
          /\ fl' = [fl EXCEPT !.buffer = r.buffer,
                      !.ran = Append(@, [stage |-> "filter",
                                         input |-> fl.buffer,
                                         output |-> r.buffer])]
    /\ fpc' = "compressor"
    /\ UNCHANGED <<ringVars, mainVars, fx_samples>>

Fx_filter_stage ==
    /\ fpc = "filter"
    /\ IF effects.filter_enabled
       THEN LET r == biquad_process(effects.filter, fl.buffer)
            IN /\ effects' = [effects EXCEPT !.filter = r.filter]
               /\ fl' = [fl EXCEPT !.buffer = r.buffer,
                           !.ran = Append(@, [stage |-> "filter",
                                              input |-> fl.buffer,
                                              output |-> r.buffer])]
       ELSE UNCHANGED <<effects, fl>>
    /\ fpc' = "compressor"
    /\ UNCHANGED <<ringVars, mainVars, fx_samples>>

\* if (chain->compressor_enabled) compressor_process(...)
Fx_compressor_stage_on_input ==
    /\ fpc = "compressor"
    /\ IF effects.compressor_enabled
       THEN LET r == compressor_process(effects.compressor, fl.input)
            IN /\ effects' = [effects EXCEPT !.compressor = r.compressor]
               /\ fl' = [fl EXCEPT !.buffer = r.buffer,
                           !.ran = Append(@, [stage |-> "compressor",
                                              input |-> fl.buffer,
                                              output |-> r.buffer])]
       ELSE UNCHANGED <<effects, fl>>
    /\ fpc' = "ret"
    /\ UNCHANGED <<ringVars, mainVars, fx_samples>>

Fx_compressor_stage ==
    /\ fpc = "compressor"
    /\ IF effects.compressor_enabled
       THEN LET r == compressor_process(effects.compressor, fl.buffer)
            IN /\ effects' = [effects EXCEPT !.compressor = r.compressor]
               /\ fl' = [fl EXCEPT !.buffer = r.buffer,
                           !.ran = Append(@, [stage |-> "compressor",
                                              input |-> fl.buffer,
                                              output |-> r.buffer])]
       ELSE UNCHANGED <<effects, fl>>
    /\ fpc' = "ret"
    /\ UNCHANGED <<ringVars, mainVars, fx_samples>>

\* effect_chain_process, biquad_reset or a reconfiguration has returned
Fx_return ==
    /\ fpc \in {"ret", "reset_ret", "filter_init_ret", "compressor_init_ret"}
    /\ fpc' = "idle" /\ fl' = FIdle
    /\ UNCHANGED <<ringVars, mainVars, effects, fx_samples>>

FxConfigure ==
    \/ \E g \in BOOLEAN, f \in BOOLEAN, c \in BOOLEAN : Fx_set_enabled(g, f, c)
    \/ \E g \in GainValues : Fx_gain_init(g)
    \/ \E trig \in TrigValues, q \in QValues : Fx_biquad_lowpass_init(trig, q)
    \/ \E trig \in TrigValues, q \in QValues : Fx_biquad_highpass_init(trig, q)
    \/ \E th \in ThresholdValues, r \in RatioValues,
          a \in AttackValues, rel \in ReleaseValues :
            Fx_compressor_init(th, r, a, rel)
    \/ Fx_biquad_reset

FxProcess ==
    \/ \E block \in Blocks(MaxBlock) : Fx_call(block)
    \/ Fx_gain_stage
    \/ Fx_filter_stage
    \/ Fx_compressor_stage
    \/ Fx_return

FxNext ==
    \/ effect_chain_init
    \/ FxConfigure
    \/ FxProcess

SpecFx == Init /\ [][FxNext]_vars

\* the chain with the compressor alone, on levels below, at and above the
\* envelope and the threshold: samples -1.0, 0.25, 0.5, 1.0 and 2.0,
\* thresholds 0.25 and 1.0
CompSampleValues == {0 - One, 1, 2, One, 2 * One}
CompThresholdValues == {1, One}
CompBlocks == UNION {[1..k -> CompSampleValues] : k \in 0..MaxBlock}

CompNext ==
    \/ effect_chain_init
    \/ Fx_set_enabled(FALSE, FALSE, TRUE)
    \/ \E th \in CompThresholdValues, r \in RatioValues,
          a \in AttackValues, rel \in ReleaseValues :
            Fx_compressor_init(th, r, a, rel)
    \/ \E block \in CompBlocks : Fx_call(block)
    \/ Fx_gain_stage
    \/ Fx_filter_stage
    \/ Fx_compressor_stage
    \/ Fx_return

SpecCompressor == Init /\ [][CompNext]_vars

\* effect_chain_process as one call: the chain and the buffer after it
effect_chain_process(chain, buf) ==
    LET g == IF chain.gain_enabled THEN gain_process(chain.gain, buf) ELSE buf
        f == IF chain.filter_enabled
             THEN biquad_process(chain.filter, g)
             ELSE [filter |-> chain.filter, buffer |-> g]
        c == IF chain.compressor_enabled
             THEN compressor_process(chain.compressor, f.buffer)
             ELSE [compressor |-> chain.compressor, buffer |-> f.buffer]
    IN [chain |-> [chain EXCEPT !.filter = f.filter,
                                !.compressor = c.compressor],
        buffer |-> c.buffer]

\* the coefficients of the three stages, and their recursive state
Coefficients(chain) ==
    <<chain.gain.gain,
      chain.filter.b0, chain.filter.b1, chain.filter.b2,
      chain.filter.a1, chain.filter.a2,
      chain.compressor.threshold, chain.compressor.ratio,
      chain.compressor.attack_coef, chain.compressor.release_coef>>
Flags(chain) ==
    <<chain.gain_enabled, chain.filter_enabled, chain.compressor_enabled>>
FilterState(chain) ==
    <<chain.filter.x1, chain.filter.x2, chain.filter.y1, chain.filter.y2>>
RecursiveState(chain) == <<FilterState(chain), chain.compressor.envelope>>

\* C15: effect_chain_init leaves the three stages disabled and the
\* recursive state zero, and effect_chain_process on a chain in that
\* condition is a pure passthrough: every sample of the block and every
\* field of the chain is as it was before the call.
C15_InitPassthrough ==
    /\ [][(fpc = "uninit" /\ fpc' # "uninit")
            => /\ Flags(effects') = <<FALSE, FALSE, FALSE>>
               /\ RecursiveState(effects') = <<<<0, 0, 0, 0>>, 0>>]_vars
    /\ []((fpc = "ret" /\ Flags(fl.pre) = <<FALSE, FALSE, FALSE>>)
            => /\ fl.buffer = fl.input
               /\ effects = fl.pre)

\* a block of two non-zero samples has gone through the chain that
\* effect_chain_init set up
C15_Witness ==
    /\ fpc = "ret" /\ fl.pre = InitialChain
    /\ Len(fl.input) = 2 /\ fl.input[1] # 0 /\ fl.input[2] # 0

\* the stages a call on this chain runs, in the order of the source
EnabledStages(chain) ==
    (IF chain.gain_enabled THEN <<"gain">> ELSE <<>>)
      \o (IF chain.filter_enabled THEN <<"filter">> ELSE <<>>)
      \o (IF chain.compressor_enabled THEN <<"compressor">> ELSE <<>>)

\* what a stage makes of a block, given the chain at the start of the call
StageOutput(chain, stage, buf) ==
    CASE stage = "gain" -> gain_process(chain.gain, buf)
      [] stage = "filter" -> biquad_process(chain.filter, buf).buffer
      [] stage = "compressor" ->
            compressor_process(chain.compressor, buf).buffer

\* C16: one call of effect_chain_process runs the enabled stages in the
\* order gain, filter, compressor, each exactly once over the whole block,
\* the first on the caller's block and each later one on the output of the
\* enabled stage before it; this holds after every sequence of toggles and
\* reconfigurations.
C16_StageOrder ==
    fpc = "ret" =>
      /\ [k \in DOMAIN fl.ran |-> fl.ran[k].stage] = EnabledStages(fl.pre)
      /\ \A k \in DOMAIN fl.ran :
           /\ Len(fl.ran[k].input) = fl.frames
           /\ fl.ran[k].input =
                (IF k = 1 THEN fl.input ELSE fl.ran[k - 1].output)
           /\ fl.ran[k].output =
                StageOutput(fl.pre, fl.ran[k].stage, fl.ran[k].input)
      /\ fl.buffer = (IF fl.ran = <<>> THEN fl.input
                      ELSE fl.ran[Len(fl.ran)].output)

\* all three stages ran, and each changed the block it was given
C16_Witness ==
    /\ fpc = "ret" /\ Len(fl.ran) = 3 /\ fl.frames = 2
    /\ \A k \in 1..3 : fl.ran[k].output # fl.ran[k].input

\* C17: a disabled stage is skipped entirely: whatever the three flags,
\* effect_chain_process leaves the recursive state of every disabled stage
\* as it was, and changes no enable flag and no coefficient of any stage.
C17_DisabledStageUntouched ==
    fpc = "ret" =>
      /\ Flags(effects) = Flags(fl.pre)
      /\ Coefficients(effects) = Coefficients(fl.pre)
      /\ ~fl.pre.gain_enabled => effects.gain = fl.pre.gain
      /\ ~fl.pre.filter_enabled => effects.filter = fl.pre.filter
      /\ ~fl.pre.compressor_enabled => effects.compressor = fl.pre.compressor

\* a call has run the gain alone on a chain whose disabled filter and
\* compressor hold state from an earlier call
C17_Witness ==
    /\ fpc = "ret"
    /\ Flags(fl.pre) = <<TRUE, FALSE, FALSE>>
    /\ fl.pre.filter.y1 # 0 /\ fl.pre.compressor.envelope # 0
    /\ fl.frames >= 1 /\ fl.buffer # fl.input

\* C18: state continuity: for biquad_process, compressor_process and
\* effect_chain_process with any flags, one call on n + m samples gives
\* the same samples and the same final state as a call on the first n
\* followed by a call on the other m, for all n, m >= 0.  Checked for
\* every call the model makes (its chain, its block) and every split of
\* the block.
C18_StateContinuity ==
    fpc = "ret" =>
      /\ [chain |-> effects, buffer |-> fl.buffer]
           = effect_chain_process(fl.pre, fl.input)
      /\ \A n \in 0..fl.frames :
           LET head == SubSeq(fl.input, 1, n)
               tail == SubSeq(fl.input, n + 1, fl.frames)
               b1 == biquad_process(fl.pre.filter, head)
               b2 == biquad_process(b1.filter, tail)
               c1 == compressor_process(fl.pre.compressor, head)
               c2 == compressor_process(c1.compressor, tail)
               e1 == effect_chain_process(fl.pre, head)
               e2 == effect_chain_process(e1.chain, tail)
           IN /\ biquad_process(fl.pre.filter, fl.input)
                   = [filter |-> b2.filter, buffer |-> b1.buffer \o b2.buffer]
              /\ compressor_process(fl.pre.compressor, fl.input)
                   = [compressor |-> c2.compressor,
                      buffer |-> c1.buffer \o c2.buffer]
              /\ effect_chain_process(fl.pre, fl.input)
                   = [chain |-> e2.chain, buffer |-> e1.buffer \o e2.buffer]

\* a second call has continued from filter and compressor state that the
\* first call left behind
C18_Witness ==
    /\ fpc = "ret" /\ fx_samples = MaxFxSamples
    /\ Flags(fl.pre) = <<TRUE, TRUE, TRUE>>
    /\ FilterState(fl.pre) # <<0, 0, 0, 0>>
    /\ fl.pre.compressor.envelope # 0
    /\ fl.frames = MaxBlock
    /\ fl.buffer # fl.input

\* C19: biquad_reset sets x1, x2, y1 and y2 to zero and leaves b0, b1, b2,
\* a1 and a2 (and the rest of the chain) as they were.
C19_BiquadReset ==
    fpc = "reset_ret" =>
      /\ FilterState(effects) = <<0, 0, 0, 0>>
      /\ Coefficients(effects) = Coefficients(fl.pre)
      /\ Flags(effects) = Flags(fl.pre)
      /\ effects.compressor = fl.pre.compressor
      /\ effects.gain = fl.pre.gain

\* a filter whose four state fields were all non-zero has been reset
C19_Witness ==
    /\ fpc = "reset_ret"
    /\ fl.pre.filter.x1 # 0 /\ fl.pre.filter.x2 # 0
    /\ fl.pre.filter.y1 # 0 /\ fl.pre.filter.y2 # 0
    /\ fl.pre.filter.b0 # 0 /\ fl.pre.filter.a2 # 0

\* --------------------------------------------------------------- main.c
\* #define RING_BUFFER_SIZE 8192
RING_BUFFER_SIZE == 8192
\* #define PROCESS_CHUNK_SIZE 256
PROCESS_CHUNK_SIZE == 256

\* lengths of the input file, in frames: empty, one frame, less than the
\* prefill, a whole number of chunks, and more than the ring buffer holds
TotalFramesValues == {0, 1, 300, 1024, 8500}
\* --gain: 0 dB (the default) and +6 dB
GainDbValues == {0, 6}
\* --lowpass / --highpass: absent (0) and 2000 Hz
FreqValues == {0, 2000}

\* powf(10.0f, gain_db / 20.0f)
GainOf(gain_db) == IF gain_db = 0 THEN One ELSE 2 * One

\* input_data[i]: frame i of the file carries the label i + 1
input_data(i) == i + 1

\* ring_buffer_write as one call made with no other call in flight: the
\* storage and write cursor after it and the value returned
\* the sample of the transfer that the copies starting at slot pos put in
\* slot s: the k with ChunkSlot(pos, chunk1, k) = s
SlotOffset_shifted(cap, pos, s) == (s + cap - pos + 1) % cap

SlotOffset(cap, pos, s) == (s + cap - pos) % cap

\* (p and n are write_pos and to_write, evaluated once for all slots)
CopyIn(buf, cap, write_pos, data, to_write) ==
    LET copy[p \in {write_pos}, n \in {to_write}] ==
          [s \in DOMAIN buf |->
             IF SlotOffset(cap, p, s) < n
             THEN data[SlotOffset(cap, p, s) + 1]
             ELSE buf[s]]
    IN copy[write_pos, to_write]

RbWrite(buf, cap, msk, w, r, data) ==
    LET available == write_available(cap, w, r)
        to_write == ToTransfer(Len(data), available)
        write_pos == BitAnd(w, msk)
        chunk1 == Chunk1(cap, write_pos, to_write)
    IN IF to_write = 0
       THEN [buffer |-> buf, write_index |-> w, ret |-> 0]
       ELSE [buffer |-> CopyIn(buf, cap, write_pos, data, to_write),
             write_index |-> NextCursor(w, to_write),
             ret |-> to_write]

\* ring_buffer_read as one call made with no other call in flight: the
\* samples copied out, the read cursor after it and the value returned
RbRead(buf, cap, msk, w, r, count) ==
    LET available == read_available(w, r)
        to_read == ToTransfer(count, available)
        read_pos == BitAnd(r, msk)
        chunk1 == Chunk1(cap, read_pos, to_read)
    IN IF to_read = 0
       THEN [data |-> <<>>, read_index |-> r, ret |-> 0]
       ELSE [data |-> [k \in 1..to_read |->
                         buf[ChunkSlot(read_pos, chunk1, k - 1)]],
             read_index |-> NextCursor(r, to_read),
             ret |-> to_read]

\* the two one-call operators agree with the calls made step by step
RbCallsRefined ==
    /\ (wpc = "ret" /\ rpc = "idle") =>
         RbWrite(wl.pre_buf, capacity, mask, wl.pre_w, wl.pre_r, wl.data)
           = [buffer |-> buffer, write_index |-> write_index, ret |-> wl.ret]
    /\ (rpc = "ret" /\ wpc = "idle") =>
         LET res == RbRead(rl.pre_buf, capacity, mask, rl.pre_w, rl.pre_r,
                           rl.count)
         IN /\ res.ret = rl.ret /\ res.read_index = read_index
            /\ \A k \in 1..res.ret : res.data[k] = rl.data[k - 1]
    /\ wpc \in {"copy", "store"} =>
         \A k \in 0..(wl.to_write - 1) :
           SlotOffset(capacity, wl.write_pos,
                      ChunkSlot(wl.write_pos, wl.chunk1, k)) = k

\* the command line is read and the input file loaded
Main_start(total_frames, effects_enabled, gain_db, lowpass_freq, highpass_freq, compress_enabled) ==
    /\ mpc = "start"
    /\ ml' = [MIdle EXCEPT !.total_frames = total_frames,
                           !.effects_enabled = effects_enabled,
                           !.gain_db = gain_db,
                           !.lowpass_freq = lowpass_freq,
                           !.highpass_freq = highpass_freq,
                           !.compress_enabled = compress_enabled]
    /\ mpc' = "create"
    /\ UNCHANGED <<ringVars, effects, fpc, fl, fx_samples, output_data>>

\* rb = ring_buffer_create(RING_BUFFER_SIZE)
Main_create_small ==
    /\ mpc = "create" /\ ~createCall.called
    /\ \E structOk \in BOOLEAN, bufOk \in BOOLEAN :
         ring_buffer_create(PROCESS_CHUNK_SIZE, structOk, bufOk)

Main_create ==
    /\ mpc = "create" /\ ~createCall.called
    /\ \E structOk \in BOOLEAN, bufOk \in BOOLEAN :
         ring_buffer_create(RING_BUFFER_SIZE, structOk, bufOk)

\* if (!rb) return 1
Main_create_failed ==
    /\ mpc = "create" /\ createCall.called /\ createCall.ret = "NULL"
    /\ mpc' = "exit"
    /\ UNCHANGED <<ringVars, effects, fpc, fl, fx_samples, ml, output_data>>

\* the chain main sets up: effect_chain_init, then the stages the options
\* enable unless --no-effects was given
MainChain(l) ==
    LET c0 == InitialChain
        c1 == IF l.gain_db # 0
              THEN [c0 EXCEPT !.gain_enabled = TRUE,
                              !.gain = gain_init(GainOf(l.gain_db))]
              ELSE c0
        c2 == IF l.lowpass_freq > 0
              THEN [c1 EXCEPT !.filter_enabled = TRUE,
                      !.filter = biquad_lowpass_init(@, One \div 2, 3, 3)]
              ELSE IF l.highpass_freq > 0
              THEN [c1 EXCEPT !.filter_enabled = TRUE,
                      !.filter = biquad_highpass_init(@, One \div 2, 3, 3)]
              ELSE c1
        c3 == IF l.compress_enabled
              THEN [c2 EXCEPT !.compressor_enabled = TRUE]
              ELSE c2
    IN IF l.effects_enabled THEN c3 ELSE c0

\* output_data = malloc(...), the effect chain, process_buffer = malloc(...)
Main_setup ==
    /\ mpc = "create" /\ created
    /\ output_data' = [i \in 0..(ml.total_frames - 1) |-> Untouched]
    /\ effects' = MainChain(ml)
    /\ fpc' = "idle" /\ fl' = FIdle /\ fx_samples' = 0
    /\ mpc' = "prefill"
    /\ UNCHANGED <<ringVars, ml>>

\* prefill = PROCESS_CHUNK_SIZE * 2, at most total_frames;
\* ring_buffer_write(rb, input_data, prefill); input_pos = prefill
Main_prefill_whole_file ==
    /\ mpc = "prefill"
    /\ LET prefill == ml.total_frames
       IN \E data \in {[k \in 1..prefill |-> input_data(k - 1)]} :
          \E res \in {RbWrite(buffer, capacity, mask, write_index,
                              read_index, data)} :
            /\ buffer' = res.buffer /\ write_index' = res.write_index
            /\ written' = written \o SubSeq(data, 1, res.ret)
            /\ ml' = [ml EXCEPT !.input_pos = prefill]
    /\ mpc' = "loop"
    /\ UNCHANGED <<rbVars, reset_after_use, read_index, stale, wpc, wl, rpc, rl, delivered,
                   effects, fpc, fl, fx_samples, output_data>>

Main_prefill ==
    /\ mpc = "prefill"
    /\ LET prefill == Min(PROCESS_CHUNK_SIZE * 2, ml.total_frames)
       IN \E data \in {[k \in 1..prefill |-> input_data(k - 1)]} :
          \E res \in {RbWrite(buffer, capacity, mask, write_index,
                              read_index, data)} :
            /\ buffer' = res.buffer /\ write_index' = res.write_index
            /\ written' = written \o SubSeq(data, 1, res.ret)
            /\ ml' = [ml EXCEPT !.input_pos = prefill]
    /\ mpc' = "loop"
    /\ UNCHANGED <<rbVars, reset_after_use, read_index, stale, wpc, wl, rpc, rl, delivered,
                   effects, fpc, fl, fx_samples, output_data>>

\* while (output_pos < total_frames) { to_write = 0; to_read = 0;
Main_loop_test ==
    /\ mpc = "loop"
    /\ mpc' = IF ml.output_pos < ml.total_frames THEN "write" ELSE "done"
    /\ ml' = [ml EXCEPT !.to_write = 0, !.to_read = 0]
    /\ UNCHANGED <<ringVars, effects, fpc, fl, fx_samples, output_data>>

\* the first half of the loop body: write more input if there is some and
\* the buffer has space
Main_loop_write ==
    /\ mpc = "write"
    /\ IF ml.input_pos < ml.total_frames
       THEN LET available_space ==
                  write_available(capacity, write_index, read_index)
                to_write == Min(Min(PROCESS_CHUNK_SIZE, available_space),
                                ml.total_frames - ml.input_pos)
            IN IF to_write > 0
               THEN \E data \in {[k \in 1..to_write |->
                                    input_data(ml.input_pos + k - 1)]} :
                    \E res \in {RbWrite(buffer, capacity, mask, write_index,
                                        read_index, data)} :
                      /\ buffer' = res.buffer /\ write_index' = res.write_index
                      /\ written' = written \o SubSeq(data, 1, res.ret)
                      /\ ml' = [ml EXCEPT !.to_write = to_write,
                                          !.input_pos = @ + to_write]
               ELSE /\ ml' = [ml EXCEPT !.to_write = 0]
                    /\ UNCHANGED <<buffer, write_index, written>>
       ELSE UNCHANGED <<buffer, write_index, written, ml>>
    /\ mpc' = "read"
    /\ UNCHANGED <<rbVars, reset_after_use, read_index, stale, wpc, wl, rpc, rl, delivered,
                   effects, fpc, fl, fx_samples, output_data>>

\* the second half of the loop body: read a chunk, apply the effects, copy
\* it to output_data; then the break when nothing was written or read
Main_loop_read ==
    /\ mpc = "read"
    /\ \E available_data \in {read_available(write_index, read_index)} :
       \E to_read \in {Min(Min(PROCESS_CHUNK_SIZE, available_data),
                            ml.total_frames - ml.output_pos)} :
          /\ IF to_read > 0
             THEN \E res \in {RbRead(buffer, capacity, mask, write_index,
                                     read_index, to_read)} :
                  \E fx \in {IF ml.effects_enabled
                             THEN effect_chain_process(effects, res.data)
                             ELSE [chain |-> effects, buffer |-> res.data]} :
                    /\ read_index' = res.read_index
                    /\ delivered' = delivered \o res.data
                    /\ effects' = fx.chain
                    /\ output_data' =
                         [i \in DOMAIN output_data |->
                            IF i >= ml.output_pos /\ i < ml.output_pos + to_read
                            THEN fx.buffer[i - ml.output_pos + 1]
                            ELSE output_data[i]]
                    /\ ml' = [ml EXCEPT !.to_read = to_read,
                                        !.process_buffer = fx.buffer,
                                        !.output_pos = @ + to_read,
                                        !.total_processed = @ + to_read]
             ELSE /\ ml' = [ml EXCEPT !.to_read = 0]
                  /\ UNCHANGED <<read_index, delivered, effects, output_data>>
          /\ mpc' = IF ml.to_write = 0 /\ to_read = 0 THEN "done" ELSE "loop"
    /\ UNCHANGED <<rbVars, reset_after_use, buffer, write_index, stale, wpc, wl, rpc, rl,
                   written, fpc, fl, fx_samples>>

\* the output file is written from output_data; ring_buffer_free(rb)
Main_free ==
    /\ mpc = "done"
    /\ ring_buffer_free

MainNext ==
    \/ \E total_frames \in TotalFramesValues, effects_enabled \in BOOLEAN,
          gain_db \in GainDbValues, lowpass_freq \in FreqValues,
          highpass_freq \in FreqValues, compress_enabled \in BOOLEAN :
            \* the filter and the compressor are taken only with
            \* --no-effects: their loops over a 256-sample chunk are
            \* checked on short blocks in SpecFx
            /\ effects_enabled
                 => (lowpass_freq = 0 /\ highpass_freq = 0 /\ ~compress_enabled)
            /\ Main_start(total_frames, effects_enabled, gain_db, lowpass_freq,
                          highpass_freq, compress_enabled)
    \/ Main_create
    \/ Main_create_failed
    \/ Main_setup
    \/ Main_prefill
    \/ Main_loop_test
    \/ Main_loop_write
    \/ Main_loop_read
    \/ Main_free

SpecMain == Init /\ [][MainNext]_vars

\* main run to its end: one thread that keeps running until it returns.
\* The loop's control flow reads total_frames and the cursors only, so the
\* options are --gain and --no-effects (the filter and compressor options
\* change no count)
MainFairNext ==
    \/ \E total_frames \in TotalFramesValues, effects_enabled \in BOOLEAN,
          gain_db \in GainDbValues :
            Main_start(total_frames, effects_enabled, gain_db, 0, 0, FALSE)
    \/ Main_create
    \/ Main_create_failed
    \/ Main_setup
    \/ Main_prefill
    \/ Main_loop_test
    \/ Main_loop_write
    \/ Main_loop_read
    \/ Main_free

SpecMainFair == Init /\ [][MainFairNext]_vars /\ WF_vars(MainFairNext)

\* no option enables a stage
NoStageOption(l) ==
    /\ l.gain_db = 0 /\ l.lowpass_freq = 0 /\ l.highpass_freq = 0
    /\ ~l.compress_enabled

\* C20: batch passthrough: when --no-effects is given, or when no effect
\* option enables a stage, the output the program writes equals its input:
\* output_data[i] == input_data[i] for every i < total_frames.
C20_BatchPassthrough ==
    (mpc = "done" /\ (~ml.effects_enabled \/ NoStageOption(ml)))
      => /\ DOMAIN output_data = 0..(ml.total_frames - 1)
         /\ \A i \in 0..(ml.total_frames - 1) : output_data[i] = input_data(i)

\* a file longer than the prefill has gone through the enabled chain with
\* no stage on, in several chunks
C20_Witness ==
    /\ mpc = "done" /\ created
    /\ ml.effects_enabled /\ NoStageOption(ml)
    /\ ml.total_frames > 2 * PROCESS_CHUNK_SIZE
    /\ ml.output_pos = ml.total_frames
    /\ ml.total_processed = ml.total_frames


\* ------------------------------------------------------------ audio_io.c
\* errno values of the platform (Linux)
EIO == 5
EAGAIN == 11
EPIPE == 32
ENOSYS == 38
EBADFD == 77
ESTRPIPE == 86

\* what snd_pcm_readi / snd_pcm_writei return for a request of frames
\* frames: a frame count, or a negative error code
IoResults(frames) ==
    (0..frames) \cup {0 - EPIPE, 0 - ESTRPIPE, 0 - EAGAIN, 0 - EBADFD}
\* what snd_pcm_prepare and snd_pcm_resume return: 0 or a negative error code
PrepareResults == {0, 0 - EIO}
ResumeResults == {0, 0 - EAGAIN, 0 - ENOSYS}
\* what a caller may pass to audio_device_recover
RecoverArgs == {0 - EPIPE, 0 - ESTRPIPE, 0 - EAGAIN, 0 - EBADFD, 0, 1}

\* everything but the call on the audio device
notAudioVars == <<created, heapStruct, heapBuf, capacity, mask, createCall,
                  size_bits, reset_after_use, buffer, write_index, read_index,
                  stale, wpc, wl, rpc, rl, written, delivered, appVars>>

DeviceCall(fn, ret) == [fn |-> fn, ret |-> ret]

\* audio_capture_read(dev, buffer, frames) / audio_playback_write(dev,
\* buffer, frames) is entered
Audio_call(op, frames) ==
    /\ apc = "idle"
    /\ al' = [AIdle EXCEPT !.op = op, !.frames = frames]
    /\ apc' = "io"
    /\ UNCHANGED notAudioVars

\* result = snd_pcm_readi(...) / snd_pcm_writei(...); if (result < 0)
\* audio_device_recover(dev, result) is entered (result, a long, is passed
\* as int err: the error codes are within the range of int)
Audio_io(r) ==
    /\ apc = "io"
    /\ r \in IoResults(al.frames)
    /\ al' = [al EXCEPT !.io = r, !.result = r,
                        !.arg = IF r < 0 THEN r ELSE 0,
                        !.err = IF r < 0 THEN r ELSE 0]
    /\ apc' = IF r < 0 THEN "recover" ELSE "ret"
    /\ UNCHANGED notAudioVars

\* audio_device_recover(dev, err) called by the program itself
Audio_recover_call(err) ==
    /\ apc = "idle"
    /\ al' = [AIdle EXCEPT !.op = "audio_device_recover", !.arg = err,
                           !.err = err]
    /\ apc' = "recover"
    /\ UNCHANGED notAudioVars

\* err == -EPIPE: err = snd_pcm_prepare(dev->handle); return err
Recover_prepare(p) ==
    /\ apc = "recover" /\ al.err = 0 - EPIPE
    /\ al' = [al EXCEPT !.calls = Append(@, DeviceCall("snd_pcm_prepare", p)),
                        !.err = p]
    /\ apc' = "recover_ret"
    /\ UNCHANGED notAudioVars

\* err == -ESTRPIPE: one evaluation of the condition of the while loop,
\* then the test err < 0 once the loop is left
Recover_resume_always_prepare(r) ==
    /\ \/ apc = "recover" /\ al.err = 0 - ESTRPIPE
       \/ apc = "resume"
    /\ r = 0 - EAGAIN => Len(al.calls) < MaxResume
    /\ al' = [al EXCEPT !.calls = Append(@, DeviceCall("snd_pcm_resume", r)),
                        !.err = r]
    /\ apc' = IF r = 0 - EAGAIN THEN "resume" ELSE "prepare"
    /\ UNCHANGED notAudioVars

Recover_resume(r) ==
    /\ \/ apc = "recover" /\ al.err = 0 - ESTRPIPE
       \/ apc = "resume"
    /\ r = 0 - EAGAIN => Len(al.calls) < MaxResume
    /\ al' = [al EXCEPT !.calls = Append(@, DeviceCall("snd_pcm_resume", r)),
                        !.err = r]
    /\ apc' = IF r = 0 - EAGAIN THEN "resume"
              ELSE IF r < 0 THEN "prepare"
              ELSE "recover_ret"
    /\ UNCHANGED notAudioVars

\* after a failed resume: err = snd_pcm_prepare(dev->handle); return err
Recover_prepare_after_resume(p) ==
    /\ apc = "prepare"
    /\ al' = [al EXCEPT !.calls = Append(@, DeviceCall("snd_pcm_prepare", p)),
                        !.err = p]
    /\ apc' = "recover_ret"
    /\ UNCHANGED notAudioVars

\* any other err: return err
Recover_other ==
    /\ apc = "recover" /\ al.err \notin {0 - EPIPE, 0 - ESTRPIPE}
    /\ apc' = "recover_ret"
    /\ UNCHANGED <<al, notAudioVars>>

\* audio_device_recover returns; in audio_capture_read and
\* audio_playback_write its value becomes result
Recover_return ==
    /\ apc = "recover_ret"
    /\ al' = [al EXCEPT !.result = al.err]
    /\ apc' = "ret"
    /\ UNCHANGED notAudioVars

\* return result
Audio_return ==
    /\ apc = "ret"
    /\ apc' = "idle" /\ al' = AIdle
    /\ UNCHANGED notAudioVars

AudioNext ==
    \/ \E op \in {"audio_capture_read", "audio_playback_write"},
          frames \in 1..MaxFrames : Audio_call(op, frames)
    \/ \E r \in IoResults(MaxFrames) : Audio_io(r)
    \/ \E err \in RecoverArgs : Audio_recover_call(err)
    \/ \E p \in PrepareResults : Recover_prepare(p)
    \/ \E r \in ResumeResults : Recover_resume(r)
    \/ \E p \in PrepareResults : Recover_prepare_after_resume(p)
    \/ Recover_other
    \/ Recover_return
    \/ Audio_return

SpecAudio == Init /\ [][AudioNext]_vars

\* ------------------------------------------- reconfiguration mid-stream
\* C21 as stated: reconfiguring the filter (biquad_lowpass_init,
\* biquad_highpass_init) or the compressor (compressor_init) mid-stream
\* does not reset its internal state: x1, x2, y1, y2 and the envelope keep
\* the values they had before the reconfiguration.
C21_ReconfigKeepsState ==
    fpc \in {"filter_init_ret", "compressor_init_ret"} =>
      RecursiveState(effects) = RecursiveState(fl.pre)

\* C21 as the code has it: biquad_lowpass_init and biquad_highpass_init
\* end with biquad_reset, so x1, x2, y1 and y2 are zero after either of
\* them, and compressor_init sets the envelope to zero; no history is
\* carried over a reconfiguration.  The stage that was not reconfigured,
\* the gain and the enable flags are as they were.
C21_ReconfigResetsState ==
    /\ fpc = "filter_init_ret" =>
         /\ FilterState(effects) = <<0, 0, 0, 0>>
         /\ effects.compressor = fl.pre.compressor
         /\ effects.gain = fl.pre.gain
         /\ Flags(effects) = Flags(fl.pre)
    /\ fpc = "compressor_init_ret" =>
         /\ effects.compressor.envelope = 0
         /\ effects.filter = fl.pre.filter
         /\ effects.gain = fl.pre.gain
         /\ Flags(effects) = Flags(fl.pre)

\* the filter has been reconfigured while its four history scalars and the
\* compressor's envelope were all non-zero
C21_Witness ==
    /\ fpc = "filter_init_ret"
    /\ fl.pre.filter.x1 # 0 /\ fl.pre.filter.x2 # 0
    /\ fl.pre.filter.y1 # 0 /\ fl.pre.filter.y2 # 0
    /\ fl.pre.compressor.envelope # 0
    /\ fx_samples > 0


\* -------------------------------------------- availability under concurrency
\* the two cursor loads of an availability query made by the writer thread
\* (resp. the reader thread) have both been done: ring_buffer_write begins
\* with ring_buffer_write_available and ring_buffer_read with
\* ring_buffer_read_available, both functions do the same two loads, and a
\* call with count = 0 does nothing but the query
WriterQueried == wpc \in {"load_w", "copy", "store", "ret"}
ReaderQueried == rpc \in {"load_r", "copy", "ret"}

Consumed ==
    IF rpc = "copy"
    THEN rl.pre_n + (IF rl.published THEN rl.to_read ELSE 0)
    ELSE Len(delivered)

\* C23: the cursors are counters of size_bits bits that wrap modulo
\* 2^size_bits: each cursor is the number of samples written (consumed)
\* since the last reset, modulo 2^size_bits.  For every power-of-two
\* capacity, also after either cursor has wrapped: write_index - read_index
\* in size_t arithmetic is the true occupancy, the k-th sample written sits
\* in slot cursor & mask = (k - 1) mod capacity for as long as it is unread,
\* the samples delivered are a prefix of the samples written, and between
\* calls read_available and write_available are the true counts.
C23_CursorOverflow ==
    created =>
      /\ write_index = Len(written) % SizeMod
      /\ read_index = Consumed % SizeMod
      /\ Sub(write_index, read_index) = Len(written) - Consumed
      /\ Len(written) - Consumed \in 0..capacity
      /\ \A k \in (Consumed + 1)..Len(written) :
           /\ BitAnd((k - 1) % SizeMod, mask) = (k - 1) % capacity
           /\ buffer[BitAnd((k - 1) % SizeMod, mask)] = written[k]
      /\ IsPrefix(delivered, written)
      /\ BothIdle =>
           /\ read_available(write_index, read_index)
                = Len(written) - Len(delivered)
           /\ write_available(capacity, write_index, read_index)
                = capacity - (Len(written) - Len(delivered))

\* a read of two or more samples has taken the read cursor from below
\* 2^size_bits - 1 past 0, after the write cursor had wrapped before it
C23_Witness ==
    /\ created /\ capacity >= 2
    /\ rpc = "ret" /\ rl.ret >= 2
    /\ rl.pre_w < rl.pre_r
    /\ read_index < rl.pre_r
    /\ Len(delivered) > SizeMod
    /\ delivered = written


\* --------------------------------------------------- ownership of cursors
\* a step of the writer thread, resp. of the reader thread
WriterActs == <<wpc, wl>>' # <<wpc, wl>>
ReaderActs == <<rpc, rl>>' # <<rpc, rl>>

\* the slots (w + i) & mask, i < to_write, of the write in flight
WriterSlots == {BitAnd(Add(wl.w, k), mask) : k \in 0..(wl.to_write - 1)}

\* C24: single ownership of the cursors: ring_buffer_write never modifies
\* the read cursor and changes only the storage slots (w + i) & mask for
\* i < written; ring_buffer_read never modifies the write cursor or any
\* storage slot; read_available and write_available modify nothing; each
\* cursor is non-decreasing between resets and is stored to at most once
\* per call, after the call's data copy is complete.
C24_SingleOwnership ==
    [][(created /\ created') =>
         /\ WriterActs =>
              /\ read_index' = read_index
              /\ \A s \in DOMAIN buffer :
                   buffer'[s] # buffer[s] => (wpc = "copy" /\ s \in WriterSlots)
              /\ write_index' >= write_index
              /\ write_index' # write_index =>
                   /\ wpc = "store" /\ wl.i = wl.to_write
                   /\ write_index = wl.pre_w
                   /\ write_index' = Add(wl.pre_w, wl.to_write)
         /\ ReaderActs =>
              /\ write_index' = write_index
              /\ buffer' = buffer
              /\ read_index' >= read_index
              /\ read_index' # read_index =>
                   /\ rpc = "copy" /\ rl.i = rl.to_read
                   /\ read_index = rl.pre_r
                   /\ read_index' = Add(rl.pre_r, rl.to_read)
         /\ (wpc \in {"avail_w", "avail_r"} /\ WriterActs) =>
              UNCHANGED <<write_index, read_index, buffer, capacity, mask>>
         /\ (rpc \in {"avail_w", "avail_r"} /\ ReaderActs) =>
              UNCHANGED <<write_index, read_index, buffer, capacity, mask>>
      ]_vars


\* ------------------------------------------------- the batch loop of main
\* the frames of the input file, in order
InputFrames(l) == [k \in 1..l.total_frames |-> input_data(k - 1)]

\* C25: the batch loop of main terminates for every total_frames >= 0,
\* and when it has ended output_pos = total_processed = total_frames:
\* every input frame has gone into the ring buffer and come out of it
\* exactly once, in input order; the break for "nothing is happening" is
\* never taken while frames remain unprocessed.
C25_BatchLoopTerminates ==
    /\ <>(mpc \in {"done", "exit"})
    /\ [](mpc = "done" =>
            /\ ml.output_pos = ml.total_frames
            /\ ml.total_processed = ml.total_frames
            /\ ml.input_pos = ml.total_frames)
    /\ []((mpc = "done" /\ created) =>
            /\ written = InputFrames(ml)
            /\ delivered = InputFrames(ml))
    /\ []((mpc \in {"loop", "write", "read"}) =>
            /\ Len(delivered) <= Len(written)
            /\ Len(written) <= ml.total_frames
            /\ \A k \in 1..Len(delivered) : delivered[k] = input_data(k - 1)
            /\ \A k \in 1..Len(written) : written[k] = input_data(k - 1))
    /\ [][(mpc = "read" /\ mpc' = "done")
            => ml'.output_pos = ml'.total_frames]_vars

\* the loop has ended on a file that is not a whole number of chunks,
\* after a read of a whole chunk and a last short one
C25_Witness ==
    /\ mpc = "done" /\ created
    /\ ml.total_frames > PROCESS_CHUNK_SIZE
    /\ ml.total_frames % PROCESS_CHUNK_SIZE # 0
    /\ ml.output_pos = ml.total_frames
    /\ Len(delivered) = ml.total_frames

\* C26: main ignores what ring_buffer_write and ring_buffer_read return,
\* and soundly: the prefill of min(512, total_frames) samples, every write
\* and every read of the loop requests no more than is available when the
\* call is made, so the call transfers exactly the requested count, and at
\* every iteration boundary input_pos is the number of samples the ring
\* buffer has accepted and output_pos the number it has delivered.
C26_IgnoredReturnsSound ==
    /\ []((mpc \in {"loop", "write", "done"} /\ created) =>
            /\ ml.input_pos = Len(written)
            /\ ml.output_pos = Len(delivered))
    /\ [][/\ mpc = "prefill" =>
               /\ ml'.input_pos = Min(2 * PROCESS_CHUNK_SIZE, ml.total_frames)
               /\ ml'.input_pos
                    <= write_available(capacity, write_index, read_index)
               /\ Len(written') - Len(written) = ml'.input_pos
          /\ mpc = "write" =>
               /\ ml'.to_write
                    <= write_available(capacity, write_index, read_index)
               /\ Len(written') - Len(written) = ml'.to_write
               /\ ml'.input_pos - ml.input_pos = ml'.to_write
          /\ mpc = "read" =>
               /\ ml'.to_read <= read_available(write_index, read_index)
               /\ Len(delivered') - Len(delivered) = ml'.to_read
               /\ ml'.output_pos - ml.output_pos = ml'.to_read
         ]_vars

\* an iteration that wrote a whole chunk and read a whole chunk has ended,
\* after a prefill of 512 samples
C26_Witness ==
    /\ mpc = "loop" /\ created
    /\ ml.to_write = PROCESS_CHUNK_SIZE /\ ml.to_read = PROCESS_CHUNK_SIZE
    /\ ml.input_pos = 3 * PROCESS_CHUNK_SIZE
    /\ ml.output_pos = PROCESS_CHUNK_SIZE
    /\ Len(written) = ml.input_pos


\* ------------------------------------------------------ the filter stage
\* the record of the filter stage in a finished call of effect_chain_process
FilterRan == {k \in DOMAIN fl.ran : fl.ran[k].stage = "filter"}

\* C27: biquad_process_sample is Direct-Form-I: with the history before
\* the sample, y = b0*x + b1*x1 + b2*x2 - a1*y1 - a2*y2, and afterwards
\* x2 = old x1, x1 = x, y2 = old y1, y1 = y, coefficients unchanged;
\* biquad_process replaces buffer[i] by that output for i = 0..frames-1
\* in increasing order.  Stated on the whole block as the difference
\* equation over the input and output sequences, each preceded by its two
\* history values.
C27_DirectFormI ==
    fpc = "ret" =>
      \A r \in FilterRan :
        LET f == fl.pre.filter
            g == effects.filter
            n == Len(fl.ran[r].input)
            X == <<f.x2, f.x1>> \o fl.ran[r].input
            Y == <<f.y2, f.y1>> \o fl.ran[r].output
        IN /\ Len(fl.ran[r].output) = n
           /\ \A i \in 1..n :
                Y[i + 2] = FMul(f.b0, X[i + 2]) + FMul(f.b1, X[i + 1])
                             + FMul(f.b2, X[i]) - FMul(f.a1, Y[i + 1])
                             - FMul(f.a2, Y[i])
           /\ g.x1 = X[n + 2] /\ g.x2 = X[n + 1]
           /\ g.y1 = Y[n + 2] /\ g.y2 = Y[n + 1]
           /\ <<g.b0, g.b1, g.b2, g.a1, g.a2>>
                = <<f.b0, f.b1, f.b2, f.a1, f.a2>>

\* a filter with five non-zero coefficients and history from an earlier
\* call has processed a block of two samples: at the second sample all
\* five terms of the equation are non-zero
C27_Witness ==
    /\ fpc = "ret" /\ FilterRan # {} /\ fl.frames = 2
    /\ \A c \in {fl.pre.filter.b0, fl.pre.filter.b1, fl.pre.filter.b2,
                 fl.pre.filter.a1, fl.pre.filter.a2} : c # 0
    /\ fl.pre.filter.x1 # 0 /\ fl.pre.filter.y1 # 0
    /\ effects.filter.x1 # effects.filter.x2
    /\ \A r \in FilterRan :
         /\ fl.ran[r].input[1] # 0 /\ fl.ran[r].output[1] # 0
         /\ fl.ran[r].output # fl.ran[r].input


\* -------------------------------------------------- the compressor stage
CompressorRan == {k \in DOMAIN fl.ran : fl.ran[k].stage = "compressor"}

\* the envelope after each sample of block x, starting from envelope e0
EnvelopeAfter(c, e0, x) ==
    LET E[i \in 0..Len(x)] ==
          IF i = 0 THEN e0
          ELSE IF fabsf(x[i]) > E[i - 1]
               THEN FMul(c.attack_coef, E[i - 1])
                      + FMul(One - c.attack_coef, fabsf(x[i]))
               ELSE FMul(c.release_coef, E[i - 1])
                      + FMul(One - c.release_coef, fabsf(x[i]))
    IN E

\* C28: compressor_process, per sample in order: the envelope is updated
\* with the attack coefficient exactly when |x| > envelope and with the
\* release coefficient otherwise (equality included); the gain is decided
\* from the updated envelope: when it is <= threshold the gain is 1 and
\* the output sample equals the input sample, otherwise the sample is
\* multiplied by (envelope / threshold)^(1/ratio - 1); only the envelope
\* field of the compressor changes.
C28_CompressorPerSample ==
    fpc = "ret" =>
      \A r \in CompressorRan :
        LET c == fl.pre.compressor
            x == fl.ran[r].input
            y == fl.ran[r].output
            E == EnvelopeAfter(c, c.envelope, x)
        IN /\ Len(y) = Len(x)
           /\ \A i \in 1..Len(x) :
                /\ E[i] <= c.threshold => y[i] = x[i]
                /\ E[i] > c.threshold =>
                     y[i] = FMul(x[i], powf_ratio(FDiv(E[i], c.threshold),
                                                  c.ratio))
           /\ effects.compressor = [c EXCEPT !.envelope = E[Len(x)]]

\* a block of two samples: the first above the envelope (attack) and
\* compressed, the second below it (release), leaving the envelope at or
\* under the threshold, and passed through unchanged
C28_Witness ==
    /\ fpc = "ret" /\ CompressorRan # {} /\ fl.frames = 2
    /\ fl.pre.compressor.envelope > 0
    /\ \A r \in CompressorRan :
         LET x == fl.ran[r].input
             y == fl.ran[r].output
         IN /\ fabsf(x[1]) > fl.pre.compressor.envelope
            /\ y[1] # x[1]
            /\ fabsf(x[2]) < fabsf(x[1])
            /\ effects.compressor.envelope < fabsf(x[1])
            /\ effects.compressor.envelope <= fl.pre.compressor.threshold
            /\ x[2] # 0 /\ y[2] = x[2]


\* ------------------------------------------------- recovery of the device
\* audio_device_recover has run to its return
RecoverDone ==
    /\ apc \in {"recover_ret", "ret"}
    /\ al.op = "audio_device_recover" \/ al.io < 0

\* the call is one of the two transfers and has reached its return
IoDone ==
    /\ apc = "ret"
    /\ al.op \in {"audio_capture_read", "audio_playback_write"}

LastCall == al.calls[Len(al.calls)]

\* C29: audio_device_recover(err): for -EPIPE exactly one snd_pcm_prepare
\* and its result is returned; for -ESTRPIPE snd_pcm_resume is repeated as
\* long as it answers -EAGAIN, snd_pcm_prepare follows only when the last
\* resume failed with another error, and the last result is returned;
\* any other err is returned unchanged with no device call.
\* audio_capture_read / audio_playback_write return the device's frame
\* count on success, 0 after a successful recovery, and a negative value
\* only when recovery failed or the error was not recoverable.
C29_DeviceRecovery ==
    /\ RecoverDone =>
         LET n == Len(al.calls)
         IN /\ al.arg = 0 - EPIPE =>
                 /\ n = 1 /\ al.calls[1].fn = "snd_pcm_prepare"
                 /\ al.err = al.calls[1].ret
            /\ al.arg = 0 - ESTRPIPE =>
                 /\ \E k \in 1..n :
                      /\ \A j \in 1..(k - 1) :
                           al.calls[j] = DeviceCall("snd_pcm_resume", 0 - EAGAIN)
                      /\ al.calls[k].fn = "snd_pcm_resume"
                      /\ al.calls[k].ret # 0 - EAGAIN
                      /\ IF al.calls[k].ret < 0
                         THEN n = k + 1 /\ al.calls[n].fn = "snd_pcm_prepare"
                         ELSE n = k
                 /\ al.err = al.calls[n].ret
            /\ al.arg \notin {0 - EPIPE, 0 - ESTRPIPE} =>
                 n = 0 /\ al.err = al.arg
    /\ (apc = "ret" /\ al.op = "audio_device_recover") => al.result = al.err
    /\ IoDone =>
         /\ al.io >= 0 => al.result = al.io /\ al.calls = <<>>
         /\ al.io < 0 =>
              /\ al.result <= 0
              /\ al.result = 0 <=> (al.calls # <<>> /\ LastCall.ret = 0)
              /\ al.result < 0 =>
                   \/ /\ al.calls = <<>> /\ al.result = al.io
                      /\ al.io \notin {0 - EPIPE, 0 - ESTRPIPE}
                   \/ al.calls # <<>> /\ LastCall.ret = al.result

\* a read found the device suspended; resume answered -EAGAIN, then
\* succeeded: no prepare, and the read returns 0
C29_Witness ==
    /\ IoDone /\ al.op = "audio_capture_read"
    /\ al.io = 0 - ESTRPIPE
    /\ Len(al.calls) = 2
    /\ al.calls[1] = DeviceCall("snd_pcm_resume", 0 - EAGAIN)
    /\ al.calls[2] = DeviceCall("snd_pcm_resume", 0)
    /\ al.result = 0

====
